---- MODULE Spec2Model ----
(***************************************************************************)
(* x402-connector: the payment verification and settlement engine.         *)
(*                                                                         *)
(*   core/facilitators.py         LocalFacilitator (EVM), verify           *)
(*   core/facilitators_solana.py  SolanaFacilitator, verify                *)
(*   core/processor.py            X402PaymentProcessor                     *)
(*                                                                         *)
(* Python strings whose characters matter (addresses and network names,    *)
(* which the code lower-cases, and request paths, which the code matches   *)
(* by prefix) are sequences of one-character strings.  Reason codes are    *)
(* sequences of their '_'-separated words, so that "the reason contains    *)
(* the word w" is a membership test.  Decimal fields of the payment are    *)
(* strings that int() parses.                                              *)
(***************************************************************************)
EXTENDS Integers, Sequences, FiniteSets, TLC

VARIABLES
    config,          \* the X402Config and the facilitator the processor owns
    now,             \* int(time.time())
    used_nonces,     \* LocalFacilitator._used_nonces / SolanaFacilitator._used_nonces
    payment_cache,   \* X402PaymentProcessor._payment_cache: header -> SettlementResult
    last,            \* the most recent completed call: its arguments and its result
    ncalls,          \* the number of calls made so far
    threads          \* the concurrent specification: each thread's position and locals

vars == <<config, now, used_nonces, payment_cache, last, ncalls, threads>>

-----------------------------------------------------------------------------
(* Bounds                                                                  *)

MaxTime == 2

MaxCalls == 2

-----------------------------------------------------------------------------
(* Python string operations                                                *)

\* str.lower() on one character, for the letters the model's strings use
LowerChar(c) ==
    CASE c = "A" -> "a"
      [] c = "B" -> "b"
      [] c = "E" -> "e"
      [] c = "L" -> "l"
      [] c = "N" -> "n"
      [] c = "O" -> "o"
      [] c = "P" -> "p"
      [] c = "S" -> "s"
      [] OTHER -> c

\* str.lower()
Lower(s) == [i \in DOMAIN s |-> LowerChar(s[i])]

\* str.startswith(prefix)
StartsWith(s, prefix) ==
    /\ Len(prefix) <= Len(s)
    /\ SubSeq(s, 1, Len(prefix)) = prefix

\* str.endswith(suffix)
EndsWith(s, suffix) ==
    /\ Len(suffix) <= Len(s)
    /\ SubSeq(s, Len(s) - Len(suffix) + 1, Len(s)) = suffix

\* `needle in haystack` for sequences of words
Contains(haystack, needle) ==
    \E i \in 0..(Len(haystack) - Len(needle)) :
        SubSeq(haystack, i + 1, i + Len(needle)) = needle

\* str(n) for the integers of the model
DecStr(n) ==
    CASE n = -1 -> "-1"
      [] n = 0 -> "0"
      [] n = 1 -> "1"
      [] n = 2 -> "2"
      [] n = 3 -> "3"
      [] n = 4 -> "4"
      [] n = 5 -> "5"
      [] n = 5000 -> "5000"
      [] n = 10000 -> "10000"

Ints == (-1..5) \cup {5000, 10000}

\* whether int(s) returns (it raises ValueError otherwise)
IsInt(s) == \E n \in Ints : DecStr(n) = s

\* int(s)
ParseInt(s) == CHOOSE n \in Ints : DecStr(n) = s

\* whether int(str(x) or 0) returns: the empty string is replaced by 0
IsIntOrEmpty(s) == s = "" \/ IsInt(s)

\* int(str(x) or 0)
IntOrZero(s) == IF s = "" THEN 0 ELSE ParseInt(s)

-----------------------------------------------------------------------------
(* Sample data                                                             *)

NetBase == <<"b", "a", "s", "e">>
NetBaseUpper == <<"B", "a", "s", "e">>
NetSolana == <<"s", "o", "l">>

AddrPayTo == <<"0", "x", "P">>
AddrPayToLower == <<"0", "x", "p">>
AddrOther == <<"0", "x", "w">>
AddrA == <<"0", "x", "A">>
AddrB == <<"0", "x", "B">>

Nonces == {"0x01", "0x02", ""}

\* the decimal strings a validity bound is drawn from, with the empty string
\* and a string int() rejects
TimeStrs == {DecStr(n) : n \in -1..(MaxTime + 1)} \cup {"", "x"}

-----------------------------------------------------------------------------
(* Verification results: the dict verify returns.  keys is the set of keys  *)
(* the dict holds; a key outside it reads as None with dict.get.            *)

VerifyInvalid(reason) ==
    [keys |-> {"isValid", "invalidReason"}, isValid |-> FALSE, is_valid |-> FALSE,
     invalidReason |-> reason, invalid_reason |-> <<>>, payer |-> <<>>]

VerifyValid(payer) ==
    [keys |-> {"isValid", "payer"}, isValid |-> TRUE, is_valid |-> FALSE,
     invalidReason |-> <<>>, invalid_reason |-> <<>>, payer |-> payer]

\* a faulty variant of UnexpectedVerifyError: the reason is the bare detail
UnexpectedVerifyError_Unprefixed(detail) == <<detail>>

\* f'unexpected_verify_error: {exc}'
UnexpectedVerifyError(detail) == <<"unexpected", "verify", "error:", detail>>

\* the marker of "no check failed"
Pass == <<>>

-----------------------------------------------------------------------------
(* LocalFacilitator.verify and SolanaFacilitator.verify                     *)
(*                                                                          *)
(* env holds what the call finds outside the program: whether the chain     *)
(* library imports (libs), what signature recovery does (sig, recovered)    *)
(* and what the balance query answers (balance).                            *)

\* nonce_str = str(nonce) if nonce else ''
NonceStr(nonce) == IF nonce # "" THEN nonce ELSE ""

\* facilitators.py: to_addr != str(requirements.get('payTo', '')).lower(),
\* with to_addr lower-cased, negated
EvmRecipientMatches(to, payTo) == Lower(to) = Lower(payTo)

\* a faulty variant of SolanaRecipientMatches: the EVM comparison, which
\* ignores letter case
SolanaRecipientMatches_IgnoringCase(to, payTo) == Lower(to) = Lower(payTo)

\* facilitators_solana.py: to_addr != requirements.get('payTo', ''), negated
SolanaRecipientMatches(to, payTo) == to = payTo

\* value != str(requirements.get('maxAmountRequired', '')), negated
AmountMatches(value, maxAmountRequired) == value = maxAmountRequired

\* a faulty variant of EvmFieldChecks: the amount is compared before the
\* recipient
EvmFieldChecks_AmountFirst(payment, requirements, t) ==
    IF ~IsInt(payment.x402Version)
    THEN UnexpectedVerifyError("invalid literal for int()")
    ELSE IF ParseInt(payment.x402Version) # 1
    THEN <<"invalid", "x402", "version">>
    ELSE IF payment.scheme # "exact" \/ requirements.scheme # "exact"
    THEN <<"invalid", "scheme">>
    ELSE IF payment.network # requirements.network
    THEN <<"invalid", "network">>
    ELSE IF ~IsIntOrEmpty(payment.validAfter) \/ ~IsIntOrEmpty(payment.validBefore)
    THEN UnexpectedVerifyError("invalid literal for int()")
    ELSE IF ~AmountMatches(payment.value, requirements.maxAmountRequired)
    THEN <<"invalid", "exact", "evm", "payload", "authorization", "value">>
    ELSE IF ~EvmRecipientMatches(payment.to, requirements.payTo)
    THEN <<"invalid", "exact", "evm", "payload", "recipient", "mismatch">>
    ELSE IF t < IntOrZero(payment.validAfter)
    THEN <<"invalid", "exact", "evm", "payload", "authorization", "valid", "after">>
    ELSE IF IntOrZero(payment.validBefore) # 0 /\ t > IntOrZero(payment.validBefore)
    THEN <<"invalid", "exact", "evm", "payload", "authorization", "valid", "before">>
    ELSE Pass

\* facilitators.py, the first lines of verify up to the timing checks:
\* the reason of the first failing check, or Pass
EvmFieldChecks(payment, requirements, t) ==
    IF ~IsInt(payment.x402Version)
    THEN UnexpectedVerifyError("invalid literal for int()")
    ELSE IF ParseInt(payment.x402Version) # 1
    THEN <<"invalid", "x402", "version">>
    ELSE IF payment.scheme # "exact" \/ requirements.scheme # "exact"
    THEN <<"invalid", "scheme">>
    ELSE IF payment.network # requirements.network
    THEN <<"invalid", "network">>
    ELSE IF ~IsIntOrEmpty(payment.validAfter) \/ ~IsIntOrEmpty(payment.validBefore)
    THEN UnexpectedVerifyError("invalid literal for int()")
    ELSE IF ~EvmRecipientMatches(payment.to, requirements.payTo)
    THEN <<"invalid", "exact", "evm", "payload", "recipient", "mismatch">>
    ELSE IF ~AmountMatches(payment.value, requirements.maxAmountRequired)
    THEN <<"invalid", "exact", "evm", "payload", "authorization", "value">>
    ELSE IF t < IntOrZero(payment.validAfter)
    THEN <<"invalid", "exact", "evm", "payload", "authorization", "valid", "after">>
    ELSE IF IntOrZero(payment.validBefore) # 0 /\ t > IntOrZero(payment.validBefore)
    THEN <<"invalid", "exact", "evm", "payload", "authorization", "valid", "before">>
    ELSE Pass

\* facilitators_solana.py, the first lines of verify up to the timing checks
SolanaFieldChecks(payment, requirements, t) ==
    IF ~IsInt(payment.x402Version)
    THEN UnexpectedVerifyError("invalid literal for int()")
    ELSE IF ParseInt(payment.x402Version) # 1
    THEN <<"invalid", "x402", "version">>
    ELSE IF payment.scheme # "exact" \/ requirements.scheme # "exact"
    THEN <<"invalid", "scheme">>
    ELSE IF Lower(payment.network) # Lower(requirements.network)
    THEN <<"invalid", "network">>
    ELSE IF ~IsIntOrEmpty(payment.validAfter) \/ ~IsIntOrEmpty(payment.validBefore)
    THEN UnexpectedVerifyError("invalid literal for int()")
    ELSE IF ~SolanaRecipientMatches(payment.to, requirements.payTo)
    THEN <<"recipient", "mismatch">>
    ELSE IF ~AmountMatches(payment.value, requirements.maxAmountRequired)
    THEN <<"amount", "mismatch">>
    ELSE IF t < IntOrZero(payment.validAfter)
    THEN <<"payment", "not", "yet", "valid">>
    ELSE IF IntOrZero(payment.validBefore) # 0 /\ t > IntOrZero(payment.validBefore)
    THEN <<"payment", "expired">>
    ELSE Pass

\* the replay check: nonce_str in self._used_nonces
NonceCheck(payment, used) ==
    IF NonceStr(payment.nonce) \in used
    THEN <<"nonce", "already", "used">>
    ELSE Pass

\* a faulty variant of EvmSignatureCheck: a signature without the full
\* signing domain is rejected
EvmSignatureCheck_RequiringDomain(payment, requirements, env) ==
    IF payment.signature # "" /\ ~requirements.domain
    THEN <<"invalid", "exact", "evm", "payload", "signature">>
    ELSE IF requirements.domain /\ payment.signature # "" /\ env.libs
    THEN IF env.sig = "encode_raises"
         THEN UnexpectedVerifyError("encode_typed_data")
         ELSE IF env.sig = "recover_raises"
         THEN <<"invalid", "exact", "evm", "payload", "signature">>
         ELSE IF Lower(env.recovered) # Lower(payment.from)
         THEN <<"invalid", "exact", "evm", "payload", "signature">>
         ELSE Pass
    ELSE Pass

\* facilitators.py: the EIP-712 signature step
EvmSignatureCheck(payment, requirements, env) ==
    IF requirements.domain /\ payment.signature # "" /\ env.libs
    THEN IF env.sig = "encode_raises"
         THEN UnexpectedVerifyError("encode_typed_data")
         ELSE IF env.sig = "recover_raises"
         THEN <<"invalid", "exact", "evm", "payload", "signature">>
         ELSE IF Lower(env.recovered) # Lower(payment.from)
         THEN <<"invalid", "exact", "evm", "payload", "signature">>
         ELSE Pass
    ELSE Pass

\* facilitators_solana.py: the Ed25519 signature step, which parses the
\* signature and the public key and compares nothing
SolanaSignatureCheck(payment, requirements, env) ==
    IF payment.signature # "" /\ payment.from # <<>> /\ env.libs
    THEN IF env.sig # "ok"
         THEN <<"invalid", "signature:", "parse">>
         ELSE Pass
    ELSE Pass

\* LocalFacilitator._check_erc20_balance: the 'sufficient' entry of its result
check_erc20_balance(env) ==
    CASE env.balance = "enough" -> TRUE
      [] env.balance = "short" -> FALSE
      [] OTHER -> TRUE

\* SolanaFacilitator._check_spl_token_balance: the 'sufficient' entry
check_spl_token_balance(env) == TRUE

\* the balance step of either verify; int(value) raises first on a value
\* that is no integer
BalanceCheck(family, local, payment, env) ==
    IF local.verify_balance
    THEN IF ~IsInt(payment.value)
         THEN UnexpectedVerifyError("invalid literal for int()")
         ELSE IF ~(IF family = "evm" THEN check_erc20_balance(env)
                   ELSE check_spl_token_balance(env))
         THEN <<"insufficient", "balance">>
         ELSE Pass
    ELSE Pass

\* every check of verify, in the code's order, against the nonce set as read
\* at the replay check: the reason of the first failure, or Pass
VerifyChecks(family, local, payment, requirements, t, used, env) ==
    LET fields == IF family = "evm"
                  THEN EvmFieldChecks(payment, requirements, t)
                  ELSE SolanaFieldChecks(payment, requirements, t)
        replay == NonceCheck(payment, used)
        sig == IF family = "evm"
               THEN EvmSignatureCheck(payment, requirements, env)
               ELSE SolanaSignatureCheck(payment, requirements, env)
        bal == BalanceCheck(family, local, payment, env)
    IN  IF fields # Pass THEN fields
        ELSE IF replay # Pass THEN replay
        ELSE IF sig # Pass THEN sig
        ELSE bal

\* the last lines of verify: "All checks passed - mark nonce as used"
MarkNonceUsed(payment, used) ==
    IF NonceStr(payment.nonce) # ""
    THEN used \cup {NonceStr(payment.nonce)}
    ELSE used

\* a faulty variant of LocalVerify: the nonce is recorded at the replay check,
\* whatever the later checks say
LocalVerify_MarkingEarly(family, local, payment, requirements, t, used, env) ==
    LET reason == VerifyChecks(family, local, payment, requirements, t, used, env)
    IN  IF reason # Pass
        THEN [res |-> VerifyInvalid(reason),
              used |-> IF reason = <<"nonce", "already", "used">> THEN used
                       ELSE MarkNonceUsed(payment, used)]
        ELSE [res |-> VerifyValid(payment.from),
              used |-> MarkNonceUsed(payment, used)]

\* verify as one call: [res |-> the dict returned, used |-> _used_nonces after]
LocalVerify(family, local, payment, requirements, t, used, env) ==
    LET reason == VerifyChecks(family, local, payment, requirements, t, used, env)
    IN  IF reason # Pass
        THEN [res |-> VerifyInvalid(reason), used |-> used]
        ELSE [res |-> VerifyValid(payment.from),
              used |-> MarkNonceUsed(payment, used)]

-----------------------------------------------------------------------------
(* Inputs: payments, requirements, environments                            *)

\* the payment of the tests' happy path: {x402Version, scheme, network,
\* payload: {signature, authorization: {from, to, value, validAfter,
\* validBefore, nonce}}}, flattened
BasePayment ==
    [x402Version |-> "1", scheme |-> "exact", network |-> NetBase,
     from |-> AddrA, to |-> AddrPayTo, value |-> "10000",
     validAfter |-> "0", validBefore |-> "0", nonce |-> "0x01", signature |-> ""]

\* the requirements the tests pass: domain says whether 'extra' holds the full
\* EIP-712 domain (name, version, chainId, verifyingContract)
BaseRequirements ==
    [scheme |-> "exact", network |-> NetBase, payTo |-> AddrPayTo,
     maxAmountRequired |-> "10000", domain |-> TRUE]

\* the values each field of a payment is drawn from
FieldValues ==
    [x402Version |-> {"1", "2", "x"},
     scheme |-> {"exact", "upto"},
     network |-> {NetBase, NetBaseUpper, NetSolana},
     from |-> {AddrA, AddrB},
     to |-> {AddrPayTo, AddrPayToLower, AddrOther},
     value |-> {"10000", "5000"},
     validAfter |-> TimeStrs,
     validBefore |-> TimeStrs,
     nonce |-> Nonces,
     signature |-> {"", "0xsig"}]

\* one value per field that makes its check fail
Violations ==
    [x402Version |-> "2", scheme |-> "upto", network |-> NetSolana,
     to |-> AddrOther, value |-> "5000", validAfter |-> DecStr(MaxTime + 1),
     validBefore |-> "-1", nonce |-> "0x02", signature |-> "0xsig"]

\* the base payment with one field changed to any of its values
OneFieldChanged ==
    UNION {{[BasePayment EXCEPT ![f] = v] : v \in FieldValues[f]} :
           f \in DOMAIN FieldValues}

\* the base payment with two fields changed, each to its failing value
TwoFieldsViolated ==
    {[BasePayment EXCEPT ![f] = Violations[f], ![g] = Violations[g]] :
     f \in DOMAIN Violations, g \in DOMAIN Violations}

Payments == OneFieldChanged \cup TwoFieldsViolated

RequirementsSet ==
    {BaseRequirements,
     [BaseRequirements EXCEPT !.scheme = "upto"],
     [BaseRequirements EXCEPT !.network = NetBaseUpper],
     [BaseRequirements EXCEPT !.payTo = AddrPayToLower],
     [BaseRequirements EXCEPT !.domain = FALSE]}

\* the environment in which nothing outside the program fails
BaseEnv == [libs |-> TRUE, sig |-> "ok", recovered |-> AddrA, balance |-> "enough"]

Envs ==
    {BaseEnv,
     [BaseEnv EXCEPT !.libs = FALSE],
     [BaseEnv EXCEPT !.sig = "encode_raises"],
     [BaseEnv EXCEPT !.sig = "recover_raises"],
     [BaseEnv EXCEPT !.recovered = AddrB],
     [BaseEnv EXCEPT !.recovered = Lower(AddrA)],
     [BaseEnv EXCEPT !.balance = "short"],
     [BaseEnv EXCEPT !.balance = "unchecked"]}

\* the environments a call can tell apart: it asks for the signature only
\* when the checks before passed and the payment carries one, and for the
\* balance only when the signature step passed and it is configured to
EnvsOf(family, local, payment, requirements, t, used) ==
    LET early == IF family = "evm" THEN EvmFieldChecks(payment, requirements, t)
                 ELSE SolanaFieldChecks(payment, requirements, t)
        asksSignature ==
            /\ early = Pass
            /\ NonceCheck(payment, used) = Pass
            /\ payment.signature # ""
        SameSignature(e) ==
            /\ e.libs = BaseEnv.libs
            /\ e.sig = BaseEnv.sig
            /\ e.recovered = BaseEnv.recovered
    IN  {e \in Envs :
            /\ ~asksSignature => SameSignature(e)
            /\ e.balance # BaseEnv.balance =>
                   /\ local.verify_balance
                   /\ early = Pass
                   /\ NonceCheck(payment, used) = Pass
                   /\ SameSignature(e)}

\* the (payment, requirements) pairs verify is called with
VerifyInputs ==
    (Payments \X {BaseRequirements})
        \cup ({BasePayment, [BasePayment EXCEPT !.signature = "0xsig"]} \X RequirementsSet)

-----------------------------------------------------------------------------
(* LocalFacilitator.settle and SolanaFacilitator.settle                     *)
(*                                                                          *)
(* The dict settle returns: keys is the set of keys it holds.  senv holds   *)
(* what the call finds outside the program: whether the two environment     *)
(* variables are set, whether the chain library imports and connects, and   *)
(* what each RPC step does.                                                 *)

SettleFailure(error) ==
    [keys |-> {"success", "error"}, success |-> FALSE, error |-> error,
     transaction |-> <<>>, receipt |-> "none"]

SettleSuccess(transaction, receipt) ==
    [keys |-> IF receipt = "none" THEN {"success", "transaction"}
              ELSE {"success", "transaction", "receipt"},
     success |-> TRUE, error |-> "", transaction |-> transaction, receipt |-> receipt]

\* a faulty variant of EvmSettle: a failed simulation is logged and the
\* transaction is sent all the same
EvmSettle_SimulationIgnored(local, payment, requirements, t, senv) ==
    IF ~senv.private_key THEN SettleFailure("X402_SIGNER_KEY not set")
    ELSE IF ~senv.rpc_url THEN SettleFailure("X402_RPC_URL not set")
    ELSE IF ~senv.libs THEN SettleFailure("web3 package not installed")
    ELSE IF ~senv.connected THEN SettleFailure("Failed to connect to RPC")
    ELSE IF senv.build = "raises" THEN SettleFailure("build: exception")
    ELSE IF senv.broadcast = "raises" THEN SettleFailure("broadcast: exception")
    ELSE IF local.wait_for_receipt
    THEN IF senv.receipt = "raises" THEN SettleSuccess(<<"0xtx">>, "none")
         ELSE IF senv.receipt = "reverted"
         THEN [keys |-> {"success", "error", "transaction", "receipt"},
               success |-> FALSE, error |-> "Transaction reverted",
               transaction |-> <<"0xtx">>, receipt |-> "status0"]
         ELSE SettleSuccess(<<"0xtx">>, "status1")
    ELSE SettleSuccess(<<"0xtx">>, "none")

\* facilitators.py, LocalFacilitator.settle
EvmSettle(local, payment, requirements, t, senv) ==
    IF ~senv.private_key THEN SettleFailure("X402_SIGNER_KEY not set")
    ELSE IF ~senv.rpc_url THEN SettleFailure("X402_RPC_URL not set")
    ELSE IF ~senv.libs THEN SettleFailure("web3 package not installed")
    ELSE IF ~senv.connected THEN SettleFailure("Failed to connect to RPC")
    ELSE IF senv.build = "raises" THEN SettleFailure("build: exception")
    ELSE IF local.simulate_before_send /\ senv.simulation = "raises"
    THEN SettleFailure("Transaction simulation failed: revert")
    ELSE IF senv.broadcast = "raises" THEN SettleFailure("broadcast: exception")
    ELSE IF local.wait_for_receipt
    THEN IF senv.receipt = "raises" THEN SettleSuccess(<<"0xtx">>, "none")
         ELSE IF senv.receipt = "reverted"
         THEN [keys |-> {"success", "error", "transaction", "receipt"},
               success |-> FALSE, error |-> "Transaction reverted",
               transaction |-> <<"0xtx">>, receipt |-> "status0"]
         ELSE SettleSuccess(<<"0xtx">>, "status1")
    ELSE SettleSuccess(<<"0xtx">>, "none")

\* facilitators_solana.py, SolanaFacilitator.settle: past the key and the
\* address parsing it broadcasts nothing and returns f"solana_tx_{int(time.time())}"
SolanaSettle(local, payment, requirements, t, senv) ==
    IF ~senv.private_key THEN SettleFailure("X402_SOLANA_SIGNER_KEY not set")
    ELSE IF ~senv.libs THEN SettleFailure("Solana libraries not installed")
    ELSE IF senv.build = "raises" THEN SettleFailure("Invalid private key")
    ELSE SettleSuccess(<<"solana_tx", DecStr(t)>>, "none")

\* the calls LocalFacilitator.settle makes to the chain, in their order:
\* connect (Web3(...), is_connected), build (from_key, the encoding of the
\* call, get_transaction_count, gas_price), simulate (eth.call), sign
\* (sign_transaction), broadcast (send_raw_transaction), wait
\* (wait_for_transaction_receipt); a call is listed whether it returns or raises
EvmSettleSteps(local, senv) ==
    IF ~senv.private_key \/ ~senv.rpc_url \/ ~senv.libs THEN <<>>
    ELSE IF ~senv.connected THEN <<"connect">>
    ELSE IF senv.build = "raises" THEN <<"connect", "build">>
    ELSE LET simulate == IF local.simulate_before_send THEN <<"simulate">> ELSE <<>>
         IN  IF local.simulate_before_send /\ senv.simulation = "raises"
             THEN <<"connect", "build">> \o simulate
             ELSE IF senv.broadcast = "raises" \/ ~local.wait_for_receipt
             THEN <<"connect", "build">> \o simulate \o <<"sign", "broadcast">>
             ELSE <<"connect", "build">> \o simulate \o <<"sign", "broadcast", "wait">>

\* the calls SolanaFacilitator.settle makes: Client(rpc_url), then the parsing
\* of the key and of the addresses; it sends nothing
SolanaSettleSteps(local, senv) ==
    IF ~senv.private_key \/ ~senv.libs THEN <<>>
    ELSE <<"connect", "build">>

BaseSettleEnv ==
    [private_key |-> TRUE, rpc_url |-> TRUE, libs |-> TRUE, connected |-> TRUE,
     build |-> "ok", simulation |-> "ok", broadcast |-> "ok", receipt |-> "ok"]

SettleEnvs ==
    {BaseSettleEnv,
     [BaseSettleEnv EXCEPT !.private_key = FALSE],
     [BaseSettleEnv EXCEPT !.simulation = "raises"]}

-----------------------------------------------------------------------------
(* A facilitator supplied to the processor from outside (the constructor's  *)
(* facilitator argument; RemoteFacilitator returns whatever JSON the remote *)
(* service answered): what its verify and its settle can do.                *)

ExternalVerifyOutcomes ==
    {[kind |-> "dict", dict |-> VerifyValid(AddrA)],
     [kind |-> "dict", dict |-> [VerifyValid(AddrB) EXCEPT
                                   !.keys = {"is_valid", "payer"},
                                   !.isValid = FALSE, !.is_valid = TRUE]],
     [kind |-> "dict", dict |-> VerifyInvalid(<<"remote", "error:", "timeout">>)],
     [kind |-> "dict", dict |-> [VerifyInvalid(<<>>) EXCEPT
                                   !.keys = {"is_valid", "invalid_reason"},
                                   !.invalid_reason = <<"insufficient", "funds">>]],
     [kind |-> "dict", dict |-> [VerifyInvalid(<<>>) EXCEPT !.keys = {"isValid"}]],
     [kind |-> "raises", dict |-> VerifyInvalid(<<>>)],
     [kind |-> "not_dict", dict |-> VerifyInvalid(<<>>)]}

ExternalSettleOutcomes ==
    {[kind |-> "dict", dict |-> SettleSuccess(<<"0xremote">>, "none")],
     [kind |-> "dict", dict |-> SettleFailure("remote_error: 500")],
     [kind |-> "dict", dict |-> [SettleFailure("") EXCEPT !.keys = {"success"}]],
     [kind |-> "raises", dict |-> SettleFailure("")],
     [kind |-> "not_dict", dict |-> SettleFailure("")]}

\* what the processor's facilitator.verify does: [kind, dict, used]
FacilitatorVerify(cfg, payment, requirements, t, used, env, ext) ==
    IF cfg.facilitator = "external"
    THEN [kind |-> ext.kind, dict |-> ext.dict, used |-> used]
    ELSE LET r == LocalVerify(cfg.facilitator, cfg.local, payment, requirements,
                              t, used, env)
         IN  [kind |-> "dict", dict |-> r.res, used |-> r.used]

\* what the processor's facilitator.settle does: [kind, dict]
FacilitatorSettle(cfg, payment, requirements, t, senv, ext) ==
    IF cfg.facilitator = "external"
    THEN [kind |-> ext.kind, dict |-> ext.dict]
    ELSE [kind |-> "dict",
          dict |-> IF cfg.facilitator = "evm"
                   THEN EvmSettle(cfg.local, payment, requirements, t, senv)
                   ELSE SolanaSettle(cfg.local, payment, requirements, t, senv)]

-----------------------------------------------------------------------------
(* Request contexts and payment headers                                    *)
(*                                                                         *)
(* A payment header is a string; the model names it by what it is: absent  *)
(* (None), empty, text that base64 or JSON decoding rejects, JSON that is  *)
(* no object, an object PaymentPayload rejects, or one of the textual      *)
(* forms of a payment's JSON (two forms of one payment are two different   *)
(* strings that decode to the same dict).                                  *)

Header(kind, form, payment) == [kind |-> kind, form |-> form, payment |-> payment]

NoHeader == Header("absent", 1, BasePayment)

HeaderPayments ==
    {BasePayment,
     [BasePayment EXCEPT !.nonce = ""],
     [BasePayment EXCEPT !.scheme = "upto"],
     [BasePayment EXCEPT !.network = NetSolana],
     [BasePayment EXCEPT !.to = AddrOther]}

Headers ==
    {NoHeader, Header("empty", 1, BasePayment), Header("not_base64", 1, BasePayment),
     Header("not_json", 1, BasePayment), Header("not_object", 1, BasePayment),
     Header("bad_shape", 1, BasePayment), Header("payment", 2, BasePayment)}
        \cup {Header("payment", 1, p) : p \in HeaderPayments}

PathA == <<"/", "a">>
PathC == <<"/", "c">>

Paths == {PathA, PathC}

Contexts == [path : Paths, payment_header : Headers]

\* `not context.payment_header`
HeaderMissing(header) == header.kind \in {"absent", "empty"}

\* a faulty variant of DecodeOk: only the base64 decoding is guarded
DecodeOk_Base64Only(cfg, header) ==
    cfg.x402 /\ header.kind \in {"not_json", "not_object", "bad_shape", "payment"}

\* json.loads(safe_base64_decode(header)) returns (it raises otherwise; the
\* import of x402.encoding inside the same try raises without the package)
DecodeOk(cfg, header) ==
    cfg.x402 /\ header.kind \in {"not_object", "bad_shape", "payment"}

\* PaymentPayload(**payment_dict) returns (it raises on a value that is no
\* dict and on a dict of the wrong shape)
PayloadOk(header) == header.kind = "payment"

-----------------------------------------------------------------------------
(* X402PaymentProcessor                                                    *)

\* process_price_to_atomic_amount(price, network), the amount
AtomicAmount(price) ==
    CASE price = "$0.01" -> "10000"
      [] price = "$0.005" -> "5000"

\* a faulty variant of BuildPaymentRequirements: no fallback entry without the
\* x402 package
BuildPaymentRequirements_NoFallback(cfg) ==
    IF cfg.x402
    THEN << [scheme |-> "exact", network |-> cfg.network,
             payTo |-> cfg.pay_to_address,
             maxAmountRequired |-> AtomicAmount(cfg.price), domain |-> TRUE] >>
    ELSE << >>

\* _build_payment_requirements: a list of one entry; without the x402
\* package the fallback dict with maxAmountRequired '10000' and no 'extra'
BuildPaymentRequirements(cfg) ==
    IF cfg.x402
    THEN << [scheme |-> "exact", network |-> cfg.network,
             payTo |-> cfg.pay_to_address,
             maxAmountRequired |-> AtomicAmount(cfg.price), domain |-> TRUE] >>
    ELSE << [scheme |-> "exact", network |-> cfg.network,
             payTo |-> cfg.pay_to_address,
             maxAmountRequired |-> "10000", domain |-> FALSE] >>

\* a faulty variant of IsProtectedPath: a pattern ending in '/*' is cut down
\* to the empty prefix
IsProtectedPath_EmptyPrefix(protected, path) ==
    \/ <<"*">> \in protected
    \/ \E pattern \in protected :
          IF EndsWith(pattern, <<"/", "*">>)
          THEN StartsWith(path, <<>>)
          ELSE pattern = path

\* a faulty variant of IsProtectedPath: the prefix keeps the '/' of '/*'
IsProtectedPath_SlashKept(protected, path) ==
    \/ <<"*">> \in protected
    \/ \E pattern \in protected :
          IF EndsWith(pattern, <<"/", "*">>)
          THEN StartsWith(path, SubSeq(pattern, 1, Len(pattern) - 1))
          ELSE pattern = path

\* _is_protected_path
IsProtectedPath(protected, path) ==
    \/ <<"*">> \in protected
    \/ \E pattern \in protected :
          IF EndsWith(pattern, <<"/", "*">>)
          THEN StartsWith(path, SubSeq(pattern, 1, Len(pattern) - 2))
          ELSE pattern = path

\* find_matching_payment_requirements: the indices of the entries whose scheme
\* and network are the payment's
\* a faulty variant of MatchingRequirements: the network is not compared
MatchingRequirements_SchemeOnly(requirements, payment) ==
    {i \in DOMAIN requirements : requirements[i].scheme = payment.scheme}

\* the requirements whose scheme and network are the payment's
MatchingRequirements(requirements, payment) ==
    {i \in DOMAIN requirements :
        /\ requirements[i].scheme = payment.scheme
        /\ requirements[i].network = payment.network}

\* verification.get('isValid') or verification.get('is_valid')
IsValid(v) ==
    \/ "isValid" \in v.keys /\ v.isValid
    \/ "is_valid" \in v.keys /\ v.is_valid

\* a faulty variant of InvalidReason: the snake-case key is not read
InvalidReason_CamelOnly(v) ==
    IF "invalidReason" \in v.keys /\ v.invalidReason # <<>> THEN v.invalidReason
    ELSE <<"Unknown error">>

\* verification.get('invalidReason') or verification.get('invalid_reason')
\* or 'Unknown error'
InvalidReason(v) ==
    IF "invalidReason" \in v.keys /\ v.invalidReason # <<>> THEN v.invalidReason
    ELSE IF "invalid_reason" \in v.keys /\ v.invalid_reason # <<>> THEN v.invalid_reason
    ELSE <<"Unknown error">>

\* verification.get('payer')
Payer(v) == IF "payer" \in v.keys THEN v.payer ELSE <<>>

ProcessingResult(action, requirements, error, payment_verified, payer_address) ==
    [action |-> action, requirements |-> requirements, error |-> error,
     payment_verified |-> payment_verified, payer_address |-> payer_address]

NoVerification == [VerifyInvalid(<<>>) EXCEPT !.keys = {}]

NoProcessingResult == ProcessingResult("none", <<>>, <<>>, FALSE, <<>>)

\* whether process_request gets as far as facilitator.verify
ReachesVerify(cfg, ctx) ==
    /\ IsProtectedPath(cfg.protected_paths, ctx.path)
    /\ ~HeaderMissing(ctx.payment_header)
    /\ DecodeOk(cfg, ctx.payment_header)
    /\ PayloadOk(ctx.payment_header)
    /\ MatchingRequirements(BuildPaymentRequirements(cfg),
                            ctx.payment_header.payment) # {}

\* process_request: [raised, result, verify_invoked, verified (the payment
\* handed to facilitator.verify), verification, used]
ProcessRequest(cfg, ctx, t, used, env, ext) ==
    LET requirements == BuildPaymentRequirements(cfg)
        header == ctx.payment_header
        payment == header.payment
        match == MatchingRequirements(requirements, payment)
        Returns(result) ==
            [raised |-> FALSE, result |-> result, verify_invoked |-> FALSE,
             verified |-> BasePayment, verification |-> NoVerification, used |-> used]
    IN  IF ~IsProtectedPath(cfg.protected_paths, ctx.path)
        THEN Returns(ProcessingResult("allow", <<>>, <<>>, FALSE, <<>>))
        ELSE IF HeaderMissing(header)
        THEN Returns(ProcessingResult("deny", requirements,
                        <<"No X-PAYMENT header provided">>, FALSE, <<>>))
        ELSE IF ~DecodeOk(cfg, header)
        THEN Returns(ProcessingResult("deny", requirements,
                        <<"Invalid payment header format">>, FALSE, <<>>))
        ELSE IF ~PayloadOk(header) \/ match = {}
        THEN Returns(ProcessingResult("deny", requirements,
                        <<"No matching payment requirements found">>, FALSE, <<>>))
        ELSE
            LET selected == requirements[CHOOSE i \in match : \A j \in match : i <= j]
                v == FacilitatorVerify(cfg, payment, selected, t, used, env, ext)
            IN  IF v.kind # "dict"
                THEN [raised |-> TRUE, result |-> NoProcessingResult,
                      verify_invoked |-> TRUE, verified |-> payment,
                      verification |-> NoVerification, used |-> v.used]
                ELSE [raised |-> FALSE,
                      result |->
                        IF ~IsValid(v.dict)
                        THEN ProcessingResult("deny", requirements,
                                <<"Invalid payment:">> \o InvalidReason(v.dict),
                                FALSE, <<>>)
                        ELSE ProcessingResult("allow", <<>>, <<>>, TRUE, Payer(v.dict)),
                      verify_invoked |-> TRUE, verified |-> payment,
                      verification |-> v.dict, used |-> v.used]


SettlementResult(success, transaction_hash, error, encoded_response, receipt) ==
    [success |-> success, transaction_hash |-> transaction_hash, error |-> error,
     encoded_response |-> encoded_response, receipt |-> receipt]

NoSettlementResult == SettlementResult(FALSE, <<>>, "none", <<>>, "none")

\* the JSON text of the value under key k
JsonText(k, d) ==
    CASE k = "success" -> IF d.success THEN "true" ELSE "false"
      [] k = "error" -> d.error
      [] k = "transaction" -> d.transaction
      [] k = "receipt" -> d.receipt

\* json.dumps(d): the members of the object, one <<key, text>> for every key
\* the dict holds, in the order the facilitators insert them
JsonDumps(d) ==
    LET ks == SelectSeq(<<"success", "error", "transaction", "receipt">>,
                        LAMBDA k : k \in d.keys)
    IN  [i \in 1..Len(ks) |-> <<ks[i], JsonText(ks[i], d)>>]

\* json.loads(text): the dict of the members; a key the text lacks reads as
\* the filler the settlement dicts carry for it
JsonLoads(text) ==
    LET Has(k) == \E i \in DOMAIN text : text[i][1] = k
        Val(k) == text[CHOOSE i \in DOMAIN text : text[i][1] = k][2]
    IN  [keys |-> {text[i][1] : i \in DOMAIN text},
         success |-> Has("success") /\ Val("success") = "true",
         error |-> IF Has("error") THEN Val("error") ELSE "",
         transaction |-> IF Has("transaction") THEN Val("transaction") ELSE <<>>,
         receipt |-> IF Has("receipt") THEN Val("receipt") ELSE "none"]

\* base64.b64encode(...).decode('ascii') and safe_base64_decode
Base64Encode(text) == <<"base64">> \o text

Base64Decode(encoded) == Tail(encoded)

\* base64.b64encode(json.dumps(settlement).encode('utf-8')).decode('ascii')
EncodeResponse(settlement) == Base64Encode(JsonDumps(settlement))

\* _get_cached_settlement: whether it returns an entry
CacheHit(cache, header) == ~HeaderMissing(header) /\ header \in DOMAIN cache

\* _cache_settlement: self._payment_cache[payment_header] = result
CacheSettlement(cache, header, result) ==
    [h \in DOMAIN cache \cup {header} |-> IF h = header THEN result ELSE cache[h]]

\* a faulty variant of ResultOfSettlement: the dict is encoded before success
\* is looked at, and a failure carries the encoding too
ResultOfSettlement_AlwaysEncoded(settlement) ==
    IF ~("success" \in settlement.keys /\ settlement.success)
    THEN SettlementResult(FALSE, <<>>,
            IF "error" \in settlement.keys THEN settlement.error
            ELSE "Settlement failed",
            EncodeResponse(settlement), "none")
    ELSE SettlementResult(TRUE,
            IF "transaction" \in settlement.keys THEN settlement.transaction ELSE <<>>,
            "none", EncodeResponse(settlement),
            IF "receipt" \in settlement.keys THEN settlement.receipt ELSE "none")

\* the SettlementResult built from the dict facilitator.settle returned
ResultOfSettlement(settlement) ==
    IF ~("success" \in settlement.keys /\ settlement.success)
    THEN SettlementResult(FALSE, <<>>,
            IF "error" \in settlement.keys THEN settlement.error
            ELSE "Settlement failed",
            <<>>, "none")
    ELSE SettlementResult(TRUE,
            IF "transaction" \in settlement.keys THEN settlement.transaction ELSE <<>>,
            "none", EncodeResponse(settlement),
            IF "receipt" \in settlement.keys THEN settlement.receipt ELSE "none")

\* whether settle_payment gets as far as facilitator.settle on a cache miss
ReachesSettle(cfg, ctx) ==
    /\ DecodeOk(cfg, ctx.payment_header)
    /\ PayloadOk(ctx.payment_header)
    /\ MatchingRequirements(BuildPaymentRequirements(cfg),
                            ctx.payment_header.payment) # {}

\* whether settle_payment calls facilitator.settle: the cache lookup misses
\* and the try block gets as far as the call
CallsSettle(cfg, ctx, cache) ==
    /\ ~(cfg.replay_cache_enabled /\ CacheHit(cache, ctx.payment_header))
    /\ ReachesSettle(cfg, ctx)

\* a faulty variant of SettleUncached: the call of facilitator.settle stands
\* outside the try block, so what it raises leaves settle_payment
SettleUncached_Unguarded(cfg, ctx, t, cache, senv, ext) ==
    LET header == ctx.payment_header
        payment == header.payment
        requirements == BuildPaymentRequirements(cfg)
        match == MatchingRequirements(requirements, payment)
        Failed(error, invoked) ==
            [raised |-> FALSE,
             result |-> SettlementResult(FALSE, <<>>, error, <<>>, "none"),
             settle_invoked |-> invoked, cached |-> FALSE, cache |-> cache]
    IN  IF ~DecodeOk(cfg, header)
        THEN Failed("exception: decode", FALSE)
        ELSE IF ~PayloadOk(header)
        THEN Failed("exception: PaymentPayload", FALSE)
        ELSE IF match = {}
        THEN Failed("No matching requirements for settlement", FALSE)
        ELSE
            LET selected == requirements[CHOOSE i \in match : \A j \in match : i <= j]
                s == FacilitatorSettle(cfg, payment, selected, t, senv, ext)
                result == ResultOfSettlement(s.dict)
            IN  IF s.kind = "raises"
                THEN [raised |-> TRUE, result |-> NoSettlementResult,
                      settle_invoked |-> TRUE, cached |-> FALSE, cache |-> cache]
                ELSE IF s.kind = "not_dict"
                THEN Failed("exception: no attribute 'get'", TRUE)
                ELSE [raised |-> FALSE, result |-> result, settle_invoked |-> TRUE,
                      cached |-> cfg.replay_cache_enabled /\ ~HeaderMissing(header),
                      cache |-> IF cfg.replay_cache_enabled /\ ~HeaderMissing(header)
                                THEN CacheSettlement(cache, header, result)
                                ELSE cache]

\* the part of settle_payment after the cache lookup missed, the try block:
\* [raised, result, settle_invoked, cached (whether _cache_settlement ran),
\* cache]; the except clause of the try block turns every exception into a
\* result, so nothing is raised
SettleUncached(cfg, ctx, t, cache, senv, ext) ==
    LET header == ctx.payment_header
        payment == header.payment
        requirements == BuildPaymentRequirements(cfg)
        match == MatchingRequirements(requirements, payment)
        Failed(error, invoked) ==
            [raised |-> FALSE,
             result |-> SettlementResult(FALSE, <<>>, error, <<>>, "none"),
             settle_invoked |-> invoked, cached |-> FALSE, cache |-> cache]
    IN  IF ~DecodeOk(cfg, header)
        THEN Failed("exception: decode", FALSE)
        ELSE IF ~PayloadOk(header)
        THEN Failed("exception: PaymentPayload", FALSE)
        ELSE IF match = {}
        THEN Failed("No matching requirements for settlement", FALSE)
        ELSE
            LET selected == requirements[CHOOSE i \in match : \A j \in match : i <= j]
                s == FacilitatorSettle(cfg, payment, selected, t, senv, ext)
                result == ResultOfSettlement(s.dict)
            IN  IF s.kind = "raises"
                THEN Failed("exception: settle", TRUE)
                ELSE IF s.kind = "not_dict"
                THEN Failed("exception: no attribute 'get'", TRUE)
                ELSE [raised |-> FALSE, result |-> result, settle_invoked |-> TRUE,
                      cached |-> cfg.replay_cache_enabled /\ ~HeaderMissing(header),
                      cache |-> IF cfg.replay_cache_enabled /\ ~HeaderMissing(header)
                                THEN CacheSettlement(cache, header, result)
                                ELSE cache]

\* a faulty variant of SettlePayment: the cache is searched for the decoded
\* payment, so the entry of one header string serves every other string of
\* the same payment
SettlePayment_ByPayload(cfg, ctx, t, cache, senv, ext) ==
    LET same == {h \in DOMAIN cache : h.payment = ctx.payment_header.payment}
    IN  IF cfg.replay_cache_enabled /\ ~HeaderMissing(ctx.payment_header) /\ same # {}
        THEN [raised |-> FALSE, result |-> cache[CHOOSE h \in same : TRUE],
              settle_invoked |-> FALSE, cached |-> FALSE, cache |-> cache]
        ELSE SettleUncached(cfg, ctx, t, cache, senv, ext)

\* a faulty variant of SettlePayment: replay_cache_enabled is not consulted,
\* the cache is read and written whatever the configuration says
SettlePayment_FlagIgnored(cfg, ctx, t, cache, senv, ext) ==
    IF CacheHit(cache, ctx.payment_header)
    THEN [raised |-> FALSE, result |-> cache[ctx.payment_header],
          settle_invoked |-> FALSE, cached |-> FALSE, cache |-> cache]
    ELSE SettleUncached([cfg EXCEPT !.replay_cache_enabled = TRUE],
                        ctx, t, cache, senv, ext)

\* settle_payment: [raised, result, settle_invoked, cached, cache]
SettlePayment(cfg, ctx, t, cache, senv, ext) ==
    IF cfg.replay_cache_enabled /\ CacheHit(cache, ctx.payment_header)
    THEN [raised |-> FALSE, result |-> cache[ctx.payment_header],
          settle_invoked |-> FALSE, cached |-> FALSE, cache |-> cache]
    ELSE SettleUncached(cfg, ctx, t, cache, senv, ext)

-----------------------------------------------------------------------------
(* Configurations                                                          *)

\* LocalFacilitatorConfig, with its defaults
LocalFacilitatorConfig ==
    [verify_balance |-> FALSE, simulate_before_send |-> TRUE,
     wait_for_receipt |-> FALSE]

\* an X402Config that _validate accepts, the facilitator the processor was
\* built with (evm: LocalFacilitator, solana: SolanaFacilitator, external:
\* one supplied by the caller), whether the x402 package imports, and the
\* fallback_to_remote a HybridFacilitator is built with (default True)
BaseConfig ==
    [network |-> NetBase, price |-> "$0.01", pay_to_address |-> AddrPayTo,
     protected_paths |-> {<<"/", "a", "/", "*">>},
     replay_cache_enabled |-> TRUE, facilitator |-> "evm",
     local |-> LocalFacilitatorConfig, x402 |-> TRUE,
     fallback_to_remote |-> TRUE]

ProcessorConfigs ==
    {BaseConfig,
     [BaseConfig EXCEPT !.replay_cache_enabled = FALSE, !.protected_paths = {<<"*">>}],
     [BaseConfig EXCEPT !.facilitator = "solana", !.protected_paths = {PathC}],
     [BaseConfig EXCEPT !.facilitator = "external"],
     [BaseConfig EXCEPT !.facilitator = "external", !.replay_cache_enabled = FALSE,
                        !.protected_paths = {}],
     [BaseConfig EXCEPT !.x402 = FALSE]}

VerifyConfigs ==
    {[BaseConfig EXCEPT !.facilitator = f, !.local.verify_balance = b] :
     f \in {"evm", "solana"}, b \in BOOLEAN}

-----------------------------------------------------------------------------
(* X402Config: construction and the facilitator factory                    *)
(*                                                                         *)
(* An input names the constructor (via), the required fields that are      *)
(* supplied at all (given: an argument, a key of the mapping, a variable   *)
(* of the environment), their values, and the two sub-configs as they are  *)
(* supplied: not at all, as an object or as a mapping.                     *)

NoSub == [repr |-> "none", empty |-> TRUE, verify_balance |-> FALSE, url |-> ""]

LocalSubs ==
    {NoSub,
     [repr |-> "object", empty |-> FALSE, verify_balance |-> FALSE, url |-> ""],
     [repr |-> "mapping", empty |-> FALSE, verify_balance |-> TRUE, url |-> ""]}

RemoteSubs ==
    {NoSub,
     [repr |-> "object", empty |-> FALSE, verify_balance |-> FALSE, url |-> "https://fac"],
     [repr |-> "mapping", empty |-> FALSE, verify_balance |-> FALSE, url |-> "https://fac"],
     [repr |-> "mapping", empty |-> TRUE, verify_balance |-> FALSE, url |-> ""]}

Required == {"network", "price", "pay_to_address"}

BaseInput ==
    [via |-> "direct", given |-> Required,
     network |-> NetBase, price |-> "$0.01", pay_to_address |-> AddrPayTo,
     facilitator_mode |-> "local", settle_policy |-> "block-on-failure",
     local |-> NoSub, remote |-> NoSub]

Constructors == {"direct", "from_dict", "from_env"}

\* every mode with every network and sub-config, and the inputs with one
\* field missing, empty or outside its enumeration; the environment holds
\* no local sub-config, and a remote one (a facilitator URL) or none
ConfigInputs ==
    {i \in
       {[BaseInput EXCEPT !.via = v, !.network = n, !.facilitator_mode = m,
                          !.local = l, !.remote = r] :
          v \in Constructors, n \in {NetBase, NetSolana},
          m \in {"local", "remote", "hybrid", "invalid"},
          l \in LocalSubs, r \in RemoteSubs}
       \cup {[BaseInput EXCEPT !.via = v, !.given = Required \ {f}] :
               v \in Constructors, f \in Required}
       \cup {[BaseInput EXCEPT !.via = v, !.facilitator_mode = ""] : v \in Constructors}
       \cup {[BaseInput EXCEPT !.via = v, !.network = <<>>] : v \in Constructors}
       \cup {[BaseInput EXCEPT !.via = v, !.price = ""] : v \in Constructors}
       \cup {[BaseInput EXCEPT !.via = v, !.pay_to_address = <<>>] : v \in Constructors}
       \cup {[BaseInput EXCEPT !.via = v, !.settle_policy = p] :
               v \in Constructors, p \in {"log-and-continue", "invalid", ""}} :
     i.via = "from_env" => (i.local = NoSub /\ i.remote.repr \in {"none", "object"})}

NoConfig ==
    [network |-> <<>>, price |-> "", pay_to_address |-> <<>>,
     facilitator_mode |-> "", settle_policy |-> "", local |-> NoSub, remote |-> NoSub]

Raises(error) == [raised |-> TRUE, error |-> error, config |-> NoConfig]

\* LocalFacilitatorConfig(), the defaults
DefaultLocalSub ==
    [repr |-> "object", empty |-> FALSE,
     verify_balance |-> LocalFacilitatorConfig.verify_balance, url |-> ""]

\* from_dict: a sub-config given as a mapping becomes an object;
\* RemoteFacilitatorConfig(**{}) lacks its url
SubFromDict(sub) == IF sub.repr = "mapping" THEN [sub EXCEPT !.repr = "object"] ELSE sub

\* a faulty variant of SetDefaults: a missing remote sub-config is let pass
SetDefaults_RemoteUnchecked(c) ==
    IF c.facilitator_mode \in {"local", "hybrid"} /\ c.local.repr = "none"
    THEN [raised |-> FALSE, error |-> "", config |-> [c EXCEPT !.local = DefaultLocalSub]]
    ELSE [raised |-> FALSE, error |-> "", config |-> c]

\* X402Config._set_defaults
SetDefaults(c) ==
    IF c.facilitator_mode = "remote" /\ c.remote.repr = "none"
    THEN Raises("ValueError: remote facilitator config required")
    ELSE IF c.facilitator_mode = "hybrid" /\ c.remote.repr = "none"
    THEN Raises("ValueError: remote facilitator config required")
    ELSE IF c.facilitator_mode \in {"local", "hybrid"} /\ c.local.repr = "none"
    THEN [raised |-> FALSE, error |-> "", config |-> [c EXCEPT !.local = DefaultLocalSub]]
    ELSE [raised |-> FALSE, error |-> "", config |-> c]

\* X402Config.__post_init__: _validate, then _set_defaults
PostInit(c) ==
    IF c.network = <<>> THEN Raises("ValueError: network is required")
    ELSE IF c.price = "" THEN Raises("ValueError: price is required")
    ELSE IF c.pay_to_address = <<>> THEN Raises("ValueError: pay_to_address is required")
    ELSE IF c.facilitator_mode \notin {"local", "remote", "hybrid"}
    THEN Raises("ValueError: facilitator_mode must be")
    ELSE IF c.settle_policy \notin {"block-on-failure", "log-and-continue"}
    THEN Raises("ValueError: settle_policy must be")
    ELSE SetDefaults(c)

FieldsOf(input) ==
    [network |-> input.network, price |-> input.price,
     pay_to_address |-> input.pay_to_address,
     facilitator_mode |-> input.facilitator_mode,
     settle_policy |-> input.settle_policy,
     local |-> input.local, remote |-> input.remote]

\* a faulty variant of Construct: from_env hands the remote sub-config of the
\* environment to the constructor
Construct_EnvRemoteLoaded(input) ==
    IF input.via = "from_env"
    THEN IF \/ input.given # Required
            \/ input.network = <<>> \/ input.price = "" \/ input.pay_to_address = <<>>
         THEN Raises("ValueError: Missing required environment variables")
         ELSE PostInit([FieldsOf(input) EXCEPT !.local = NoSub])
    ELSE IF input.given # Required
    THEN Raises("TypeError: missing required argument")
    ELSE IF input.via = "from_dict"
    THEN IF input.remote.repr = "mapping" /\ input.remote.empty
         THEN Raises("TypeError: missing required argument: url")
         ELSE PostInit([FieldsOf(input) EXCEPT !.local = SubFromDict(input.local),
                                               !.remote = SubFromDict(input.remote)])
    ELSE PostInit(FieldsOf(input))

\* X402Config(...), X402Config.from_dict(mapping), X402Config.from_env()
Construct(input) ==
    IF input.via = "from_env"
    THEN IF \/ input.given # Required
            \/ input.network = <<>> \/ input.price = "" \/ input.pay_to_address = <<>>
         THEN Raises("ValueError: Missing required environment variables")
         ELSE PostInit([FieldsOf(input) EXCEPT !.local = NoSub, !.remote = NoSub])
    ELSE IF input.given # Required
    THEN Raises("TypeError: missing required argument")
    ELSE IF input.via = "from_dict"
    THEN IF input.remote.repr = "mapping" /\ input.remote.empty
         THEN Raises("TypeError: missing required argument: url")
         ELSE PostInit([FieldsOf(input) EXCEPT !.local = SubFromDict(input.local),
                                               !.remote = SubFromDict(input.remote)])
    ELSE PostInit(FieldsOf(input))

NoFacilitator ==
    [raised |-> FALSE, type |-> "none", backend |-> "none",
     verify_balance |-> FALSE, url |-> "", fallback_to_remote |-> FALSE]

\* LocalFacilitator(config=local_dict): the EVM facilitator of facilitators.py
NewLocalFacilitator(local) ==
    [NoFacilitator EXCEPT !.type = "LocalFacilitator", !.backend = "evm",
                          !.verify_balance = local.verify_balance]

\* getattr(remote_cfg, 'url', ''): a mapping has no attribute url
RemoteUrl(remote) == IF remote.repr = "object" THEN remote.url ELSE ""

\* facilitators.py, get_facilitator(config)
GetFacilitator(c) ==
    IF c.facilitator_mode = "local" THEN NewLocalFacilitator(c.local)
    ELSE IF c.facilitator_mode \notin {"remote", "hybrid"}
    THEN [NoFacilitator EXCEPT !.raised = TRUE]
    ELSE IF c.remote.empty
    THEN [NoFacilitator EXCEPT !.raised = TRUE]
    ELSE IF c.facilitator_mode = "remote"
    THEN [NoFacilitator EXCEPT !.type = "RemoteFacilitator", !.url = RemoteUrl(c.remote)]
    ELSE [NewLocalFacilitator(c.local) EXCEPT
            !.type = "HybridFacilitator", !.url = RemoteUrl(c.remote),
            !.fallback_to_remote = TRUE]

-----------------------------------------------------------------------------
(* The state machine                                                       *)

NoContext == [path |-> <<>>, payment_header |-> NoHeader]

NoSettleOutcome == [kind |-> "none", dict |-> SettleFailure("")]

\* what a call of HybridFacilitator.verify did: what its local and its remote
\* facilitator answered, how often each was called, and what it returned
NoHybrid ==
    [local |-> [kind |-> "none", dict |-> NoVerification],
     remote |-> [kind |-> "none", dict |-> NoVerification],
     local_calls |-> 0, remote_calls |-> 0,
     returned |-> [kind |-> "none", dict |-> NoVerification]]

\* before any call; response and returned are the HTTP exchange of a
\* RemoteFacilitator call and what the call returned
NoCall ==
    [op |-> "none", ctx |-> NoContext, payment |-> BasePayment,
     requirements |-> BaseRequirements, env |-> BaseEnv, at |-> 0,
     verify_invoked |-> FALSE, verification |-> NoVerification,
     settle_invoked |-> FALSE, settle_outcome |-> NoSettleOutcome,
     raised |-> FALSE, result |-> NoProcessingResult,
     settlement |-> NoSettlementResult, hybrid |-> NoHybrid,
     response |-> [transport |-> "none", status |-> 0, body |-> [kind |-> "none"]],
     returned |-> [kind |-> "none"],
     input |-> BaseInput, constructed |-> Raises(""), made |-> NoFacilitator,
     protected |-> FALSE, settled |-> NoSettleOutcome,
     senv |-> BaseSettleEnv, steps |-> <<>>,
     chain |-> [network |-> <<>>, is_solana |-> FALSE, is_evm |-> FALSE,
                detected |-> [raised |-> FALSE, family |-> "none", error |-> <<>>]],
     wrapper |-> [configured |-> FALSE, price |-> "None", view |-> "none",
                  did |-> [steps |-> <<>>, raised |-> "", status |-> "",
                           settlement_header |-> FALSE]]]

NoThreads == <<>>

InitWith(configs) ==
    /\ config \in configs
    /\ now = 0
    /\ used_nonces = {}
    /\ payment_cache = [h \in {} |-> NoSettlementResult]
    /\ last = NoCall
    /\ ncalls = 0
    /\ threads = NoThreads

\* the clock advances between calls
Tick ==
    /\ now < MaxTime
    /\ now' = now + 1
    /\ UNCHANGED <<config, used_nonces, payment_cache, last, ncalls, threads>>

\* a direct call of the Local facilitator's verify, as the tests make it
Verify ==
    /\ ncalls < MaxCalls
    /\ \E input \in VerifyInputs :
       \E env \in EnvsOf(config.facilitator, config.local, input[1], input[2],
                          now, used_nonces) :
          LET r == LocalVerify(config.facilitator, config.local, input[1], input[2],
                               now, used_nonces, env)
          IN  /\ used_nonces' = r.used
              /\ last' = [NoCall EXCEPT !.op = "verify", !.payment = input[1],
                            !.requirements = input[2], !.env = env, !.at = now,
                            !.verify_invoked = TRUE, !.verification = r.res]
    /\ ncalls' = ncalls + 1
    /\ UNCHANGED <<config, now, payment_cache, threads>>

\* X402PaymentProcessor.process_request(context)
DoProcessRequest ==
    /\ ncalls < MaxCalls
    /\ \E ctx \in Contexts :
       \E env \in IF ReachesVerify(config, ctx) /\ config.facilitator # "external"
                  THEN EnvsOf(config.facilitator, config.local,
                              ctx.payment_header.payment,
                              BuildPaymentRequirements(config)[1], now, used_nonces)
                  ELSE {BaseEnv} :
       \E ext \in IF ReachesVerify(config, ctx) /\ config.facilitator = "external"
                  THEN ExternalVerifyOutcomes
                  ELSE {[kind |-> "dict", dict |-> NoVerification]} :
          LET r == ProcessRequest(config, ctx, now, used_nonces, env, ext)
          IN  /\ used_nonces' = r.used
              /\ last' = [NoCall EXCEPT !.op = "process_request", !.ctx = ctx,
                            !.payment = r.verified,
                            !.env = env, !.at = now,
                            !.verify_invoked = r.verify_invoked,
                            !.verification = r.verification,
                            !.raised = r.raised, !.result = r.result]
    /\ ncalls' = ncalls + 1
    /\ UNCHANGED <<config, now, payment_cache, threads>>

\* X402PaymentProcessor.settle_payment(context); it reads the context's
\* payment header only, so one path stands for all
DoSettlePayment ==
    /\ ncalls < MaxCalls
    /\ \E ctx \in {c \in Contexts : c.path = PathA} :
       \E senv \in IF CallsSettle(config, ctx, payment_cache)
                      /\ config.facilitator # "external"
                   THEN SettleEnvs ELSE {BaseSettleEnv} :
       \E ext \in IF CallsSettle(config, ctx, payment_cache)
                     /\ config.facilitator = "external"
                  THEN ExternalSettleOutcomes ELSE {NoSettleOutcome} :
          LET r == SettlePayment(config, ctx, now, payment_cache, senv, ext)
          IN  /\ payment_cache' = r.cache
              /\ last' = [NoCall EXCEPT !.op = "settle_payment", !.ctx = ctx,
                            !.payment = ctx.payment_header.payment, !.at = now,
                            !.settle_invoked = r.settle_invoked,
                            !.settle_outcome = ext,
                            !.settled =
                               IF r.settle_invoked
                               THEN FacilitatorSettle(config, ctx.payment_header.payment,
                                       BuildPaymentRequirements(config)[1], now, senv, ext)
                               ELSE NoSettleOutcome,
                            !.raised = r.raised,
                            !.settlement = r.result]
    /\ ncalls' = ncalls + 1
    /\ UNCHANGED <<config, now, used_nonces, threads>>

Spec ==
    InitWith(ProcessorConfigs) /\ [][DoProcessRequest \/ DoSettlePayment \/ Tick]_vars

SpecVerify == InitWith(VerifyConfigs) /\ [][Verify \/ Tick]_vars

\* verify called with the base payment of either payer under each nonce
VerifyReplay ==
    /\ ncalls < MaxCalls
    /\ \E from \in {AddrA, AddrB}, nonce \in Nonces :
       LET payment == [BasePayment EXCEPT !.from = from, !.nonce = nonce]
       IN  \E env \in EnvsOf(config.facilitator, config.local, payment,
                              BaseRequirements, now, used_nonces) :
              LET r == LocalVerify(config.facilitator, config.local, payment,
                                   BaseRequirements, now, used_nonces, env)
              IN  /\ used_nonces' = r.used
                  /\ last' = [NoCall EXCEPT !.op = "verify", !.payment = payment,
                                !.requirements = BaseRequirements, !.env = env,
                                !.at = now, !.verify_invoked = TRUE,
                                !.verification = r.res]
    /\ ncalls' = ncalls + 1
    /\ UNCHANGED <<config, now, payment_cache, threads>>

SpecReplay == InitWith(VerifyConfigs) /\ [][VerifyReplay \/ Tick]_vars

-----------------------------------------------------------------------------
(* Construction of configurations and of their facilitators                *)

\* X402Config(...), X402Config.from_dict(...), X402Config.from_env()
DoConstruct ==
    /\ ncalls < MaxCalls
    /\ \E input \in ConfigInputs :
          last' = [NoCall EXCEPT !.op = "construct", !.at = now, !.input = input,
                     !.constructed = Construct(input)]
    /\ ncalls' = ncalls + 1
    /\ UNCHANGED <<config, now, used_nonces, payment_cache, threads>>

\* get_facilitator(config), config being an X402Config a constructor returned
DoGetFacilitator ==
    /\ ncalls < MaxCalls
    /\ \E input \in ConfigInputs :
          /\ ~Construct(input).raised
          /\ last' = [NoCall EXCEPT !.op = "get_facilitator", !.at = now,
                        !.input = input, !.constructed = Construct(input),
                        !.made = GetFacilitator(Construct(input).config)]
    /\ ncalls' = ncalls + 1
    /\ UNCHANGED <<config, now, used_nonces, payment_cache, threads>>

SpecConfig == InitWith({BaseConfig}) /\ [][DoConstruct \/ DoGetFacilitator \/ Tick]_vars

-----------------------------------------------------------------------------
(* The Django decorator require_payment                                    *)

\* require_payment(price)(view_func)(request): what the wrapper did (which of
\* process_request, the view and settle_payment ran, the exception that left
\* it or the status of the response it returned, whether the settlement
\* header was attached), the ProcessingResult it got, and the nonce set and
\* cache afterwards.
\* `configured` is `_processor is not None`; view is what the protected view
\* does: it returns a response of that status, or raises. The attributes of
\* X402Config and of ProcessingResult are the fields of the records that model
\* them.
RequirePayment(configured, price, cfg, ctx, t, used, cache, env, ext, view) ==
    LET none == [steps |-> <<>>, raised |-> "", status |-> "",
                 settlement_header |-> FALSE]
        Returned(did, u, result) ==
            [did |-> did, used |-> u, cache |-> cache, processed |-> result]
        \* from `if result.action == 'deny'` on
        After(result) ==
            LET ran == [none EXCEPT !.steps = <<"process_request">>]
                viewed == [none EXCEPT !.steps = <<"process_request", "view">>]
            IN  IF result.action = "deny"
                THEN IF "message" \notin DOMAIN result
                     THEN [ran EXCEPT !.raised = "AttributeError"]
                     ELSE [ran EXCEPT !.status = "402"]
                ELSE IF view = "raises"
                THEN [viewed EXCEPT !.raised = "Exception"]
                ELSE IF "settlement_needed" \notin DOMAIN result
                THEN [viewed EXCEPT !.raised = "AttributeError"]
                ELSE IF result.settlement_needed /\ view = "200"
                THEN \* settle_payment(context, result.payment_data): the method
                     \* takes the context alone, the call does not enter it
                     [viewed EXCEPT !.raised = "TypeError"]
                ELSE [viewed EXCEPT !.status = view]
        Processed(r) ==
            IF r.raised
            THEN Returned([none EXCEPT !.steps = <<"process_request">>,
                                       !.raised = "Exception"], r.used, r.result)
            ELSE Returned(After(r.result), r.used, r.result)
    IN  IF ~configured
        THEN Returned([none EXCEPT !.status = "500"], used, NoProcessingResult)
        ELSE IF price # "None" /\ "rpc_url" \notin DOMAIN cfg
        THEN Returned([none EXCEPT !.raised = "AttributeError"], used,
                      NoProcessingResult)
        ELSE Processed(ProcessRequest(IF price = "None" THEN cfg
                                      ELSE [cfg EXCEPT !.price = price],
                                      ctx, t, used, env, ext))

\* one request to a view decorated with require_payment: with the default
\* price and a processor installed the view does any of four things, without
\* a processor or with a price of its own the view is one that returns 200
DoRequirePayment ==
    /\ ncalls < MaxCalls
    /\ \E call \in {<<TRUE, "None", view>> : view \in {"200", "404", "500", "raises"}}
                      \cup {<<FALSE, "None", "200">>, <<TRUE, "$0.01", "200">>} :
       \E ctx \in Contexts :
       \E env \in IF call[1] /\ call[2] = "None" /\ ReachesVerify(config, ctx)
                  THEN EnvsOf(config.facilitator, config.local,
                              ctx.payment_header.payment,
                              BuildPaymentRequirements(config)[1], now, used_nonces)
                  ELSE {BaseEnv} :
          LET configured == call[1]
              price == call[2]
              view == call[3]
              w == RequirePayment(configured, price, config, ctx, now, used_nonces,
                                  payment_cache, env,
                                  [kind |-> "dict", dict |-> NoVerification], view)
          IN  /\ used_nonces' = w.used
              /\ payment_cache' = w.cache
              /\ last' = [NoCall EXCEPT !.op = "require_payment", !.ctx = ctx,
                            !.env = env, !.at = now, !.result = w.processed,
                            !.wrapper = [configured |-> configured, price |-> price,
                                         view |-> view, did |-> w.did]]
    /\ ncalls' = ncalls + 1
    /\ UNCHANGED <<config, now, threads>>

\* the processor the middleware installed protects /a/* or /c alone
SpecWrapper ==
    /\ InitWith({BaseConfig, [BaseConfig EXCEPT !.protected_paths = {PathC}]})
    /\ [][DoRequirePayment \/ Tick]_vars

-----------------------------------------------------------------------------
(* Chain-family detection (facilitators_base), from its description and    *)
(* the names its tests use                                                 *)

\* the network identifiers handed to the detector
ChainNetworks ==
    {<<"s", "o", "l", "a", "n", "a">>,
     <<"s", "o", "l", "a", "n", "a", "-", "d", "e", "v">>,
     <<"S", "O", "L", "A", "N", "A", "-", "d", "e", "v">>,
     <<"S", "o", "l", "a", "n", "a">>,
     <<"s", "o", "l">>,
     <<"b", "a", "s", "e">>,
     <<"b", "a", "s", "e", "-", "s", "e", "p">>,
     <<"B", "A", "S", "E", "-", "s", "e", "p">>,
     <<"B", "a", "s", "e">>,
     <<"p", "o", "l", "y", "g", "o", "n">>,
     <<"P", "O", "L", "y", "g", "o", "n">>,
     <<"e", "t", "h", "e", "r", "e", "u", "m">>,
     <<"b", "a", "s">>,
     <<"u", "n", "k", "n", "o", "w", "n", "-", "c", "h", "a", "i", "n">>,
     <<"b", "i", "t", "c", "o", "i", "n">>,
     <<"x", "s", "o", "l", "a", "n", "a">>,
     <<>>}

\* is_solana_network(network)
IsSolanaNetwork(network) ==
    StartsWith(Lower(network), <<"s", "o", "l", "a", "n", "a">>)

\* is_evm_network(network)
IsEvmNetwork(network) ==
    \E prefix \in {<<"b", "a", "s", "e">>, <<"e", "t", "h", "e", "r", "e", "u", "m">>,
                    <<"p", "o", "l", "y", "g", "o", "n">>} :
        StartsWith(Lower(network), prefix)

\* a faulty variant of DetectChainType: what is not Solana is taken for EVM
DetectChainType_DefaultEvm(network) ==
    IF IsSolanaNetwork(network)
    THEN [raised |-> FALSE, family |-> "solana", error |-> <<>>]
    ELSE [raised |-> FALSE, family |-> "evm", error |-> <<>>]

\* detect_chain_type(network): the family, or ValueError('Unknown network ...')
DetectChainType(network) ==
    IF IsSolanaNetwork(network)
    THEN [raised |-> FALSE, family |-> "solana", error |-> <<>>]
    ELSE IF IsEvmNetwork(network)
    THEN [raised |-> FALSE, family |-> "evm", error |-> <<>>]
    ELSE [raised |-> TRUE, family |-> "none", error |-> <<"Unknown", "network">>]

\* one call of the three detection functions on the same identifier
DoDetectChainType ==
    /\ ncalls < MaxCalls
    /\ \E network \in ChainNetworks :
          last' = [NoCall EXCEPT !.op = "detect_chain_type", !.at = now,
                     !.chain = [network |-> network,
                                is_solana |-> IsSolanaNetwork(network),
                                is_evm |-> IsEvmNetwork(network),
                                detected |-> DetectChainType(network)]]
    /\ ncalls' = ncalls + 1
    /\ UNCHANGED <<config, now, used_nonces, payment_cache, threads>>

SpecChain == InitWith({BaseConfig}) /\ [][DoDetectChainType \/ Tick]_vars

-----------------------------------------------------------------------------
(* Path protection on its own: every set of patterns against every path    *)

PathPatterns ==
    {<<"*">>, <<"/", "*">>, <<"/", "a", "/", "*">>, <<"/", "c">>, <<"/", "c", "*">>}

RequestPaths ==
    {<<>>, <<"/", "a">>, <<"/", "a", "/", "b">>, <<"/", "a", "b">>,
     <<"/", "c">>, <<"/", "c", "d">>}

PathConfigs ==
    {[BaseConfig EXCEPT !.protected_paths = pp] : pp \in SUBSET PathPatterns}

\* processor._is_protected_path(path)
DoIsProtectedPath ==
    /\ ncalls < MaxCalls
    /\ \E path \in RequestPaths :
          last' = [NoCall EXCEPT !.op = "is_protected_path", !.at = now,
                     !.ctx = [NoContext EXCEPT !.path = path],
                     !.protected = IsProtectedPath(config.protected_paths, path)]
    /\ ncalls' = ncalls + 1
    /\ UNCHANGED <<config, now, used_nonces, payment_cache, threads>>

SpecPaths == InitWith(PathConfigs) /\ [][DoIsProtectedPath \/ Tick]_vars

-----------------------------------------------------------------------------
(* Direct calls of the Local facilitators' settle, as the tests make them  *)

\* the environments in which at most two things are amiss
DirectSettleEnvs ==
    {e \in [private_key : BOOLEAN, rpc_url : BOOLEAN, libs : BOOLEAN,
            connected : BOOLEAN, build : {"ok", "raises"},
            simulation : {"ok", "raises"}, broadcast : {"ok", "raises"},
            receipt : {"ok", "raises", "reverted"}] :
       Cardinality({f \in DOMAIN BaseSettleEnv : e[f] # BaseSettleEnv[f]}) <= 2}

SettleConfigs ==
    {[BaseConfig EXCEPT !.facilitator = f, !.local.simulate_before_send = sim,
                        !.local.wait_for_receipt = wait] :
     f \in {"evm", "solana"}, sim \in BOOLEAN, wait \in BOOLEAN}

\* facilitator.settle(payment, requirements)
DoLocalSettle ==
    /\ ncalls < MaxCalls
    /\ \E senv \in DirectSettleEnvs :
          last' = [NoCall EXCEPT !.op = "settle", !.at = now, !.senv = senv,
                     !.settled = FacilitatorSettle(config, BasePayment,
                                    BaseRequirements, now, senv, NoSettleOutcome),
                     !.steps = IF config.facilitator = "evm"
                               THEN EvmSettleSteps(config.local, senv)
                               ELSE SolanaSettleSteps(config.local, senv)]
    /\ ncalls' = ncalls + 1
    /\ UNCHANGED <<config, now, used_nonces, payment_cache, threads>>

SpecSettle == InitWith(SettleConfigs) /\ [][DoLocalSettle \/ Tick]_vars

-----------------------------------------------------------------------------
(* RemoteFacilitator: verify and settle post to the service and return the  *)
(* JSON it answers. A response is what httpx.post did (transport: it        *)
(* returned, or raised for a timeout or a refused connection), the status   *)
(* raise_for_status looks at, and the body: JSON holding a dict, JSON       *)
(* holding something else, or text that resp.json() rejects.                *)

\* what RemoteFacilitator.verify can return
RemoteVerifyOutcomes == {o \in ExternalVerifyOutcomes : o.kind # "raises"}

\* what RemoteFacilitator.settle can return
RemoteSettleOutcomes == {o \in ExternalSettleOutcomes : o.kind # "raises"}

VerifyBodies ==
    {[kind |-> o.kind, dict |-> o.dict] : o \in RemoteVerifyOutcomes}
    \cup {[kind |-> "not_json", dict |-> NoVerification]}

SettleBodies ==
    {[kind |-> o.kind, dict |-> o.dict] : o \in RemoteSettleOutcomes}
    \cup {[kind |-> "not_json", dict |-> SettleFailure("")]}

\* the responses to a request, given the bodies the service can send
ResponsesWith(bodies) ==
    [transport : {"ok"}, status : {200, 201, 404, 500}, body : bodies]
    \cup {[transport |-> t, status |-> 0, body |-> [kind |-> "none"]] :
          t \in {"timeout", "refused"}}

\* str(e) of the exception the try block of verify or settle caught
ExceptionText(resp) ==
    IF resp.transport # "ok" THEN resp.transport
    ELSE IF resp.status \in 400..499 THEN "client error"
    ELSE IF resp.status \notin 200..299 THEN "server error"
    ELSE "invalid json"

\* whether httpx.post, raise_for_status or resp.json() raises
RemoteCallFails(resp) ==
    \/ resp.transport # "ok"
    \/ resp.status \notin 200..299
    \/ resp.body.kind = "not_json"

\* a faulty variant of RemoteVerify: the status of the response is not looked at
RemoteVerify_StatusIgnored(resp) ==
    IF resp.transport # "ok" \/ resp.body.kind = "not_json"
    THEN [kind |-> "dict",
          dict |-> VerifyInvalid(<<"remote", "error:", ExceptionText(resp)>>)]
    ELSE resp.body

\* RemoteFacilitator.verify
RemoteVerify(resp) ==
    IF RemoteCallFails(resp)
    THEN [kind |-> "dict",
          dict |-> VerifyInvalid(<<"remote", "error:", ExceptionText(resp)>>)]
    ELSE resp.body

\* RemoteFacilitator.settle
RemoteSettle(resp) ==
    IF RemoteCallFails(resp)
    THEN [kind |-> "dict",
          dict |-> SettleFailure("remote_error: " \o ExceptionText(resp))]
    ELSE resp.body

RemoteConfigs == {[BaseConfig EXCEPT !.facilitator = "remote"]}

\* remote.verify(payment, requirements)
DoRemoteVerify ==
    /\ ncalls < MaxCalls
    /\ \E resp \in ResponsesWith(VerifyBodies) :
          last' = [NoCall EXCEPT !.op = "remote_verify", !.at = now,
                     !.response = resp, !.returned = RemoteVerify(resp)]
    /\ ncalls' = ncalls + 1
    /\ UNCHANGED <<config, now, used_nonces, payment_cache, threads>>

\* remote.settle(payment, requirements)
DoRemoteSettle ==
    /\ ncalls < MaxCalls
    /\ \E resp \in ResponsesWith(SettleBodies) :
          last' = [NoCall EXCEPT !.op = "remote_settle", !.at = now,
                     !.response = resp, !.returned = RemoteSettle(resp)]
    /\ ncalls' = ncalls + 1
    /\ UNCHANGED <<config, now, used_nonces, payment_cache, threads>>

SpecRemote == InitWith(RemoteConfigs) /\ [][DoRemoteVerify \/ DoRemoteSettle \/ Tick]_vars

-----------------------------------------------------------------------------
(* HybridFacilitator: a local and a remote facilitator. The local one is   *)
(* a LocalFacilitator, or (as in the tests) an object whose verify raises; *)
(* the remote one is a RemoteFacilitator, whose verify returns the JSON    *)
(* the service answered or a remote_error dict, and raises nothing.        *)

NoRemoteOutcome == [kind |-> "none", dict |-> NoVerification]

\* a faulty variant of HybridVerify: a local refusal for a used nonce is final
HybridVerify_ReplayFinal(fallback, local, remote) ==
    IF local.kind = "dict" /\ "isValid" \in local.dict.keys /\ local.dict.isValid
    THEN [returned |-> local, local_calls |-> 1, remote_calls |-> 0]
    ELSE IF local.kind = "dict"
            /\ (~fallback \/ local.dict.invalidReason = <<"nonce", "already", "used">>)
    THEN [returned |-> local, local_calls |-> 1, remote_calls |-> 0]
    ELSE [returned |-> remote, local_calls |-> 1, remote_calls |-> 1]

\* HybridFacilitator.verify: local is what self.local.verify did, remote what
\* self.remote.verify does if it is called
HybridVerify(fallback, local, remote) ==
    IF local.kind = "dict" /\ "isValid" \in local.dict.keys /\ local.dict.isValid
    THEN [returned |-> local, local_calls |-> 1, remote_calls |-> 0]
    ELSE IF local.kind = "dict" /\ ~fallback
    THEN [returned |-> local, local_calls |-> 1, remote_calls |-> 0]
    ELSE [returned |-> remote, local_calls |-> 1, remote_calls |-> 1]

\* whether a call consults the remote facilitator
ConsultsRemote(fallback, local) ==
    HybridVerify(fallback, local, NoRemoteOutcome).remote_calls = 1

HybridConfigs ==
    {[BaseConfig EXCEPT !.facilitator = "hybrid", !.fallback_to_remote = b] :
     b \in BOOLEAN}

\* payments of the hybrid calls: the valid one, one with another nonce, one
\* to another recipient and one with a non-numeric version
HybridPayments ==
    {BasePayment, [BasePayment EXCEPT !.nonce = "0x02"],
     [BasePayment EXCEPT !.to = AddrOther],
     [BasePayment EXCEPT !.x402Version = "x"]}

\* hybrid.verify(payment, requirements)
DoHybridVerify ==
    /\ ncalls < MaxCalls
    /\ \E payment \in HybridPayments :
       \E env \in EnvsOf("evm", config.local, payment, BaseRequirements, now, used_nonces) :
       \E raises \in BOOLEAN :
          LET v == LocalVerify("evm", config.local, payment, BaseRequirements,
                               now, used_nonces, env)
              local == IF raises THEN [kind |-> "raises", dict |-> NoVerification]
                       ELSE [kind |-> "dict", dict |-> v.res]
          IN  \E remote \in IF ConsultsRemote(config.fallback_to_remote, local)
                            THEN RemoteVerifyOutcomes ELSE {NoRemoteOutcome} :
                 LET r == HybridVerify(config.fallback_to_remote, local, remote)
                 IN  /\ used_nonces' = IF raises THEN used_nonces ELSE v.used
                     /\ last' = [NoCall EXCEPT !.op = "hybrid_verify",
                                   !.payment = payment, !.env = env, !.at = now,
                                   !.hybrid = [local |-> local, remote |-> remote,
                                               local_calls |-> r.local_calls,
                                               remote_calls |-> r.remote_calls,
                                               returned |-> r.returned]]
    /\ ncalls' = ncalls + 1
    /\ UNCHANGED <<config, now, payment_cache, threads>>

\* a faulty variant of HybridSettle: settles locally when the local
\* facilitator can, remotely otherwise
HybridSettle_LocalFirst(local, remote) ==
    IF local.dict.success
    THEN [returned |-> local, local_calls |-> 1, remote_calls |-> 0]
    ELSE [returned |-> remote, local_calls |-> 1, remote_calls |-> 1]

\* HybridFacilitator.settle: local is what self.local.settle would do, remote
\* what self.remote.settle does
HybridSettle(local, remote) ==
    [returned |-> remote, local_calls |-> 0, remote_calls |-> 1]

\* hybrid.settle(payment, requirements)
DoHybridSettle ==
    /\ ncalls < MaxCalls
    /\ \E payment \in HybridPayments :
       \E senv \in SettleEnvs :
       \E remote \in RemoteSettleOutcomes :
          LET local == [kind |-> "dict",
                        dict |-> EvmSettle(config.local, payment, BaseRequirements,
                                           now, senv)]
              r == HybridSettle(local, remote)
          IN  last' = [NoCall EXCEPT !.op = "hybrid_settle",
                         !.payment = payment, !.at = now,
                         !.hybrid = [local |-> local, remote |-> remote,
                                     local_calls |-> r.local_calls,
                                     remote_calls |-> r.remote_calls,
                                     returned |-> r.returned]]
    /\ ncalls' = ncalls + 1
    /\ UNCHANGED <<config, now, used_nonces, payment_cache, threads>>

SpecHybrid ==
    InitWith(HybridConfigs) /\ [][DoHybridVerify \/ DoHybridSettle \/ Tick]_vars

-----------------------------------------------------------------------------
(* Two threads on one facilitator and one processor. The code takes no     *)
(* lock, so a thread can be descheduled between the replay check of verify *)
(* and the insertion of the nonce, and between the cache lookup of         *)
(* settle_payment, the facilitator's settle and the cache write.           *)

ThreadIds == {1, 2}

NoThread ==
    [pc |-> "idle", op |-> "none", ctx |-> NoContext, payment |-> BasePayment,
     verification |-> NoVerification, settle_invoked |-> FALSE,
     settlement |-> NoSettlementResult, wrote |-> FALSE]

\* payments of the concurrent verify calls: nonces a client generates
ConcPayments ==
    {BasePayment, [BasePayment EXCEPT !.nonce = "0x02"],
     [BasePayment EXCEPT !.to = AddrOther]}

\* contexts of the concurrent settle_payment calls
ConcContexts ==
    {[path |-> PathA, payment_header |-> h] :
        h \in {Header("payment", 1, BasePayment),
               Header("payment", 2, BasePayment),
               Header("not_base64", 1, BasePayment)}}

ConcConfigs ==
    {BaseConfig,
     [BaseConfig EXCEPT !.facilitator = "solana"],
     [BaseConfig EXCEPT !.facilitator = "external"]}

InitConc ==
    /\ config \in ConcConfigs
    /\ now = 0
    /\ used_nonces = {}
    /\ payment_cache = [h \in {} |-> NoSettlementResult]
    /\ last = NoCall
    /\ ncalls = 0
    /\ threads = [i \in ThreadIds |-> NoThread]

\* verify from its first line through the balance check: the replay check
\* reads _used_nonces here
VerifyChecksStep(i) ==
    /\ threads[i].pc = "idle"
    /\ config.facilitator # "external"
    /\ \E payment \in ConcPayments :
       \E env \in EnvsOf(config.facilitator, config.local, payment,
                          BaseRequirements, now, used_nonces) :
          LET reason == VerifyChecks(config.facilitator, config.local, payment,
                                     BaseRequirements, now, used_nonces, env)
          IN  threads' = [threads EXCEPT ![i] =
                  [@ EXCEPT !.op = "verify", !.payment = payment,
                            !.pc = IF reason # Pass THEN "done" ELSE "mark",
                            !.verification = IF reason # Pass
                                             THEN VerifyInvalid(reason)
                                             ELSE NoVerification]]
    /\ UNCHANGED <<config, now, used_nonces, payment_cache, last, ncalls>>

\* the last lines of verify: the nonce is inserted and valid is returned
VerifyMarkStep(i) ==
    /\ threads[i].pc = "mark"
    /\ used_nonces' = MarkNonceUsed(threads[i].payment, used_nonces)
    /\ threads' = [threads EXCEPT ![i] =
           [@ EXCEPT !.pc = "done",
                     !.verification = VerifyValid(threads[i].payment.from)]]
    /\ UNCHANGED <<config, now, payment_cache, last, ncalls>>

\* settle_payment, the cache lookup
SettleLookupStep(i) ==
    /\ threads[i].pc = "idle"
    /\ \E ctx \in ConcContexts :
          threads' = [threads EXCEPT ![i] =
              IF config.replay_cache_enabled /\ CacheHit(payment_cache, ctx.payment_header)
              THEN [@ EXCEPT !.op = "settle_payment", !.ctx = ctx, !.pc = "done",
                             !.settlement = payment_cache[ctx.payment_header]]
              ELSE [@ EXCEPT !.op = "settle_payment", !.ctx = ctx, !.pc = "settle"]]
    /\ UNCHANGED <<config, now, used_nonces, payment_cache, last, ncalls>>

\* settle_payment, the try block up to the cache write
SettleCallStep(i) ==
    /\ threads[i].pc = "settle"
    /\ \E senv \in IF ReachesSettle(config, threads[i].ctx) /\ config.facilitator # "external"
                   THEN SettleEnvs ELSE {BaseSettleEnv} :
       \E ext \in IF ReachesSettle(config, threads[i].ctx) /\ config.facilitator = "external"
                  THEN ExternalSettleOutcomes ELSE {NoSettleOutcome} :
          LET r == SettleUncached(config, threads[i].ctx, now, payment_cache, senv, ext)
          IN  threads' = [threads EXCEPT ![i] =
                  [@ EXCEPT !.pc = IF r.cached THEN "cache" ELSE "done",
                            !.settle_invoked = r.settle_invoked,
                            !.settlement = r.result]]
    /\ UNCHANGED <<config, now, used_nonces, payment_cache, last, ncalls>>

\* settle_payment, the cache write and the return
SettleCacheStep(i) ==
    /\ threads[i].pc = "cache"
    /\ payment_cache' = CacheSettlement(payment_cache, threads[i].ctx.payment_header,
                                        threads[i].settlement)
    /\ threads' = [threads EXCEPT ![i] = [@ EXCEPT !.pc = "done", !.wrote = TRUE]]
    /\ UNCHANGED <<config, now, used_nonces, last, ncalls>>

NextConc ==
    \/ \E i \in ThreadIds : VerifyChecksStep(i)
    \/ \E i \in ThreadIds : VerifyMarkStep(i)
    \/ \E i \in ThreadIds : SettleLookupStep(i)
    \/ \E i \in ThreadIds : SettleCallStep(i)
    \/ \E i \in ThreadIds : SettleCacheStep(i)
    \/ Tick

SpecConc == InitConc /\ [][NextConc]_vars

-----------------------------------------------------------------------------
(* Properties                                                              *)

\* what a verification dict says, read off its entries
SaysValid(v) ==
    \/ "isValid" \in v.keys /\ v.isValid
    \/ "is_valid" \in v.keys /\ v.is_valid

\* the reason a verification dict states: the one under 'invalidReason', or
\* else the one under 'invalid_reason', or none
StatedReason(v) ==
    IF "invalidReason" \in v.keys /\ v.invalidReason # <<>> THEN v.invalidReason
    ELSE IF "invalid_reason" \in v.keys THEN v.invalid_reason
    ELSE <<>>

\* some configured pattern covers the path: '*' covers every path, 'p/*'
\* the paths that start with p, any other pattern the path equal to it
CoveredByPattern(path) ==
    \E pattern \in config.protected_paths :
        \/ pattern = <<"*">>
        \/ EndsWith(pattern, <<"/", "*">>)
           /\ StartsWith(path, SubSeq(pattern, 1, Len(pattern) - 2))
        \/ pattern = path

\* the step is a call of the operation
IsCall(op) == ncalls' = ncalls + 1 /\ last'.op = op

\* C1: on a protected path process_request returns 'allow' only if the
\* facilitator's verify was invoked on the payment decoded from the request's
\* header and said valid; the allow result has payment_verified true and
\* carries the payer of the verification; every verification that does not
\* say valid yields 'deny' with an error that contains the stated reason.
C1_AllowOnlyOnValidVerification ==
    (/\ last.op = "process_request"
     /\ ~last.raised
     /\ CoveredByPattern(last.ctx.path))
    => /\ last.result.action = "allow" =>
            /\ last.verify_invoked
            /\ last.ctx.payment_header.kind = "payment"
            /\ last.payment = last.ctx.payment_header.payment
            /\ SaysValid(last.verification)
            /\ last.result.payment_verified
            /\ last.result.payer_address =
                  (IF "payer" \in last.verification.keys
                   THEN last.verification.payer ELSE <<>>)
       /\ (last.verify_invoked /\ ~SaysValid(last.verification)) =>
            /\ last.result.action = "deny"
            /\ Contains(last.result.error, StatedReason(last.verification))

\* a payment on a protected path was allowed after a valid verification
C1_Witness_Allowed ==
    /\ last.op = "process_request"
    /\ CoveredByPattern(last.ctx.path)
    /\ last.result.action = "allow"
    /\ last.verify_invoked
    /\ last.result.payer_address = AddrA


\* C2: of two successive verify calls on one Local facilitator with the same
\* payment, requirements, clock and environment, the first of which returned
\* valid, the second returns invalid with reason nonce_already_used.
C2_SecondVerifyRejected ==
    [][(/\ IsCall("verify")
        /\ last.op = "verify"
        /\ SaysValid(last.verification)
        /\ last'.payment = last.payment
        /\ last'.requirements = last.requirements
        /\ last'.env = last.env
        /\ last'.at = last.at)
       => /\ ~SaysValid(last'.verification)
          /\ last'.verification.invalidReason = <<"nonce", "already", "used">>]_vars

\* C3: of two concurrent verify calls with the same nonce at most one
\* returns valid.
C3_AtMostOneValid ==
    (/\ \A i \in ThreadIds : threads[i].pc = "done" /\ threads[i].op = "verify"
     /\ threads[1].payment.nonce = threads[2].payment.nonce)
    => ~(SaysValid(threads[1].verification) /\ SaysValid(threads[2].verification))

\* C4: with the replay cache enabled, of two successive settle_payment calls
\* with the same payment header the second returns the result of the first,
\* and the facilitator's settle is not invoked by both.
C4_SecondSettleFromCache ==
    [][(/\ IsCall("settle_payment")
        /\ last.op = "settle_payment"
        /\ config.replay_cache_enabled
        /\ last'.ctx.payment_header = last.ctx.payment_header)
       => /\ last'.settlement = last.settlement
          /\ ~(last.settle_invoked /\ last'.settle_invoked)]_vars

\* C5: with the replay cache enabled, two concurrent settle_payment calls
\* with the same payment header invoke the facilitator's settle at most once,
\* return the same result, and write the cache entry once.
C5_ConcurrentSettleOnce ==
    (/\ config.replay_cache_enabled
     /\ \A i \in ThreadIds : threads[i].pc = "done" /\ threads[i].op = "settle_payment"
     /\ ~HeaderMissing(threads[1].ctx.payment_header)
     /\ threads[1].ctx.payment_header = threads[2].ctx.payment_header)
    => /\ ~(threads[1].settle_invoked /\ threads[2].settle_invoked)
       /\ threads[1].settlement = threads[2].settlement
       /\ ~(threads[1].wrote /\ threads[2].wrote)

\* C6: with the replay cache enabled and a non-empty payment header, the
\* result settle_payment returned is in the cache under that header when the
\* call has returned.
C6_EveryResultCached ==
    (/\ last.op = "settle_payment"
     /\ config.replay_cache_enabled
     /\ last.ctx.payment_header.kind \notin {"absent", "empty"})
    => /\ last.ctx.payment_header \in DOMAIN payment_cache
       /\ payment_cache[last.ctx.payment_header] = last.settlement

\* C7: on a path no pattern covers, process_request returns 'allow' without
\* invoking the facilitator, whatever the payment header, and leaves the set
\* of used nonces and the settlement cache as they were.
C7_UnprotectedPathAllowed ==
    [][(IsCall("process_request") /\ ~CoveredByPattern(last'.ctx.path))
       => /\ ~last'.raised
          /\ last'.result.action = "allow"
          /\ ~last'.verify_invoked
          /\ ~last'.settle_invoked
          /\ used_nonces' = used_nonces
          /\ payment_cache' = payment_cache]_vars

\* a request with a well-formed payment on a path no pattern covers, while
\* other paths are protected, was allowed
C7_Witness ==
    /\ last.op = "process_request"
    /\ config.protected_paths # {}
    /\ ~CoveredByPattern(last.ctx.path)
    /\ last.ctx.payment_header.kind = "payment"
    /\ last.result.action = "allow"
    /\ ~last.verify_invoked

C9_InvalidVerifyKeepsNonces ==
    [][(IsCall("verify") /\ ~SaysValid(last'.verification))
       => used_nonces' = used_nonces]_vars

\* a verify failed on an unexpected internal error and its nonce is not used
C9_Witness ==
    /\ last.op = "verify"
    /\ ~SaysValid(last.verification)
    /\ StartsWith(last.verification.invalidReason, <<"unexpected", "verify", "error:">>)
    /\ last.payment.nonce # ""
    /\ last.payment.nonce \notin used_nonces

\* the recipient of the last call's payment is the requirements' payTo:
\* ignoring letter case on EVM, the exact string on Solana
RecipientIsPayTo ==
    IF config.facilitator = "evm"
    THEN Lower(last.payment.to) = Lower(last.requirements.payTo)
    ELSE last.payment.to = last.requirements.payTo

ValueIsMaxAmount == last.payment.value = last.requirements.maxAmountRequired

\* the last call's payment passes the version, scheme and network checks and
\* its validAfter and validBefore parse as integers
PassesEarlierChecks ==
    /\ last.payment.x402Version = "1"
    /\ last.payment.scheme = "exact" /\ last.requirements.scheme = "exact"
    /\ IF config.facilitator = "evm"
       THEN last.payment.network = last.requirements.network
       ELSE Lower(last.payment.network) = Lower(last.requirements.network)
    /\ IsIntOrEmpty(last.payment.validAfter)
    /\ IsIntOrEmpty(last.payment.validBefore)

ReasonNames(word) ==
    /\ ~SaysValid(last.verification)
    /\ Contains(last.verification.invalidReason, <<word>>)

\* C10: verify returns valid only if the recipient is payTo and the value is
\* maxAmountRequired; on a payment that passes the version, scheme and network
\* checks and whose validAfter and validBefore parse as integers, a recipient
\* mismatch yields a reason containing 'recipient', and an amount mismatch
\* with a matching recipient a reason containing 'value' or 'amount'.
C10_RecipientAndAmount ==
    last.op = "verify" =>
       /\ SaysValid(last.verification) => RecipientIsPayTo /\ ValueIsMaxAmount
       /\ (PassesEarlierChecks /\ ~RecipientIsPayTo) => ReasonNames("recipient")
       /\ (PassesEarlierChecks /\ RecipientIsPayTo /\ ~ValueIsMaxAmount)
             => ReasonNames("value") \/ ReasonNames("amount")

\* a Solana recipient that differs from payTo in letter case only was rejected
C10_Witness ==
    /\ last.op = "verify"
    /\ config.facilitator = "solana"
    /\ PassesEarlierChecks
    /\ last.payment.to # last.requirements.payTo
    /\ Lower(last.payment.to) = Lower(last.requirements.payTo)
    /\ ReasonNames("recipient")

\* C10 as stated: every recipient mismatch yields a reason containing
\* 'recipient', every amount mismatch one containing 'value' or 'amount'.
C10_AsStated ==
    last.op = "verify" =>
       /\ SaysValid(last.verification) => RecipientIsPayTo /\ ValueIsMaxAmount
       /\ ~RecipientIsPayTo => ReasonNames("recipient")
       /\ ~ValueIsMaxAmount => ReasonNames("value") \/ ReasonNames("amount")

\* the last call's payment has version 1, scheme 'exact' on both sides and
\* the network of the requirements
VersionSchemeNetworkMatch ==
    /\ last.payment.x402Version = "1"
    /\ last.payment.scheme = "exact" /\ last.requirements.scheme = "exact"
    /\ last.payment.network = last.requirements.network

\* the time of the last call is inside the validity window of its payment;
\* a validBefore of 0 sets no end
InsideValidityWindow ==
    /\ IsInt(last.payment.validAfter) /\ IsInt(last.payment.validBefore)
    /\ ParseInt(last.payment.validAfter) <= last.at
    /\ \/ ParseInt(last.payment.validBefore) = 0
       \/ last.at <= ParseInt(last.payment.validBefore)

\* the signature of the last call's payment is to be checked: one is supplied,
\* and on EVM the requirements carry the full signing domain
SignatureToCheck ==
    /\ last.payment.signature # ""
    /\ config.facilitator = "evm" => last.requirements.domain

\* the signature of the last call's payment verifies to its 'from' address
SignatureVerifies ==
    /\ last.env.sig = "ok"
    /\ Lower(last.env.recovered) = Lower(last.payment.from)

\* the balance of the payer is not to be checked, or is known to suffice
BalanceNoObstacle == ~config.local.verify_balance \/ last.env.balance = "enough"

\* C11: a verify of a payment with version 1, scheme 'exact' on both sides,
\* network, recipient and amount matching the requirements, the time inside
\* the validity window and a nonce not yet used, whose signature is not to be
\* checked or verifies and whose balance is not to be checked or suffices,
\* returns isValid true with payer equal to the authorization's 'from'.
C11_ValidPaymentAccepted ==
    [][(/\ IsCall("verify")
        /\ VersionSchemeNetworkMatch'
        /\ RecipientIsPayTo' /\ ValueIsMaxAmount'
        /\ InsideValidityWindow'
        /\ last'.payment.nonce \notin used_nonces
        /\ ~SignatureToCheck' \/ SignatureVerifies'
        /\ BalanceNoObstacle')
       => /\ last'.verification.keys = {"isValid", "payer"}
          /\ last'.verification.isValid
          /\ last'.verification.payer = last'.payment.from]_vars

\* a payment with a signature was accepted without a signing domain and
\* without a balance check
C11_Witness ==
    /\ last.op = "verify"
    /\ config.facilitator = "evm"
    /\ VersionSchemeNetworkMatch /\ RecipientIsPayTo /\ ValueIsMaxAmount
    /\ InsideValidityWindow
    /\ last.payment.signature # "" /\ ~last.requirements.domain
    /\ ~config.local.verify_balance
    /\ SaysValid(last.verification)
    /\ last.verification.payer = last.payment.from

\* the ten checks of verify in the stated order: 1 version, 2 scheme,
\* 3 network, 4 recipient, 5 amount, 6 validAfter, 7 validBefore, 8 nonce,
\* 9 signature, 10 balance
CheckIds == 1..10

\* check k, taken alone, rejects the call c made with the nonces `used`
CheckRejects(k, c, used) ==
    LET p == c.payment
        r == c.requirements
        evm == config.facilitator = "evm"
    IN  CASE k = 1 -> p.x402Version # "1"
          [] k = 2 -> p.scheme # "exact" \/ r.scheme # "exact"
          [] k = 3 -> IF evm THEN p.network # r.network
                      ELSE Lower(p.network) # Lower(r.network)
          [] k = 4 -> IF evm THEN Lower(p.to) # Lower(r.payTo) ELSE p.to # r.payTo
          [] k = 5 -> p.value # r.maxAmountRequired
          [] k = 6 -> IsInt(p.validAfter) /\ c.at < ParseInt(p.validAfter)
          [] k = 7 -> /\ IsInt(p.validBefore)
                      /\ ParseInt(p.validBefore) # 0
                      /\ c.at > ParseInt(p.validBefore)
          [] k = 8 -> p.nonce \in used
          [] k = 9 -> /\ p.signature # ""
                      /\ c.env.libs
                      /\ IF evm
                         THEN /\ r.domain
                              /\ \/ c.env.sig = "recover_raises"
                                 \/ Lower(c.env.recovered) # Lower(p.from)
                         ELSE c.env.sig # "ok"
          [] k = 10 -> /\ evm
                       /\ config.local.verify_balance
                       /\ c.env.balance = "short"

\* the reason code of check k
ReasonOfCheck(k) ==
    IF config.facilitator = "evm"
    THEN CASE k = 1 -> <<"invalid", "x402", "version">>
           [] k = 2 -> <<"invalid", "scheme">>
           [] k = 3 -> <<"invalid", "network">>
           [] k = 4 -> <<"invalid", "exact", "evm", "payload", "recipient", "mismatch">>
           [] k = 5 -> <<"invalid", "exact", "evm", "payload", "authorization", "value">>
           [] k = 6 -> <<"invalid", "exact", "evm", "payload", "authorization",
                         "valid", "after">>
           [] k = 7 -> <<"invalid", "exact", "evm", "payload", "authorization",
                         "valid", "before">>
           [] k = 8 -> <<"nonce", "already", "used">>
           [] k = 9 -> <<"invalid", "exact", "evm", "payload", "signature">>
           [] k = 10 -> <<"insufficient", "balance">>
    ELSE CASE k = 1 -> <<"invalid", "x402", "version">>
           [] k = 2 -> <<"invalid", "scheme">>
           [] k = 3 -> <<"invalid", "network">>
           [] k = 4 -> <<"recipient", "mismatch">>
           [] k = 5 -> <<"amount", "mismatch">>
           [] k = 6 -> <<"payment", "not", "yet", "valid">>
           [] k = 7 -> <<"payment", "expired">>
           [] k = 8 -> <<"nonce", "already", "used">>
           [] k = 9 -> <<"invalid", "signature:", "parse">>
           [] k = 10 -> <<"insufficient", "balance">>

\* no step of the call c fails on an internal error: the version and the
\* validity bounds are integers and the signing library does not fail
NoInternalError(c) ==
    /\ IsInt(c.payment.x402Version)
    /\ IsIntOrEmpty(c.payment.validAfter)
    /\ IsIntOrEmpty(c.payment.validBefore)
    /\ c.env.sig # "encode_raises"

\* the call c, made with the nonces `used`, being rejected by some check,
\* returned the reason of the earliest check that rejects it
EarliestReasonReturned(c, used) ==
    LET rejecting == {k \in CheckIds : CheckRejects(k, c, used)}
    IN  rejecting # {} =>
           /\ ~SaysValid(c.verification)
           /\ c.verification.invalidReason =
                 ReasonOfCheck(CHOOSE k \in rejecting : \A j \in rejecting : k <= j)

\* the reason codes of the ten checks differ from one another
ReasonCodesDiffer == Cardinality({ReasonOfCheck(k) : k \in CheckIds}) = 10

ReachesTimingChecks ==
    /\ last.op = "verify"
    /\ \A k \in 1..5 : ~CheckRejects(k, last, {})
    /\ IsInt(last.payment.validAfter) /\ IsInt(last.payment.validBefore)

\* C13: a verify that reaches the timing checks rejects with the not-yet-valid
\* reason exactly when now < validAfter, and otherwise with the expired reason
\* exactly when validBefore > 0 and now > validBefore; a validBefore that is
\* not greater than 0 imposes no expiry check.
C13_TimingBoundaries ==
    ReachesTimingChecks =>
        LET after == ParseInt(last.payment.validAfter)
            before == ParseInt(last.payment.validBefore)
            reason == IF SaysValid(last.verification) THEN Pass
                      ELSE last.verification.invalidReason
        IN  /\ reason = ReasonOfCheck(6) <=> last.at < after
            /\ last.at >= after =>
                  (reason = ReasonOfCheck(7) <=> (before > 0 /\ last.at > before))

\* C14: a verify of a payment with a signature (on EVM together with the full
\* signing domain) returns isValid true only if the signature verifies to the
\* authorization's 'from'; otherwise, when the checks before the signature
\* pass, it returns a signature-invalid reason and does not consume the nonce.
C14_SignatureEnforced ==
    (last.op = "verify" /\ SignatureToCheck) =>
        /\ SaysValid(last.verification) => SignatureVerifies
        /\ (/\ ~SignatureVerifies
            /\ ~SaysValid(last.verification)
            /\ NoInternalError(last)
            /\ \A k \in 1..8 : ~CheckRejects(k, last, used_nonces))
           => /\ Contains(last.verification.invalidReason, <<"signature">>)
                 \/ Contains(last.verification.invalidReason, <<"signature:">>)
              /\ last.payment.nonce \notin used_nonces

\* C15: with balance checking enabled verify returns isValid true only if the
\* payer's balance is at least the authorized value; when the earlier checks
\* pass and the balance falls short it returns insufficient_balance.
C15_BalanceEnforced ==
    (last.op = "verify" /\ config.local.verify_balance) =>
        /\ SaysValid(last.verification) => last.env.balance = "enough"
        /\ (/\ last.env.balance = "short"
            /\ ~SaysValid(last.verification)
            /\ NoInternalError(last)
            /\ \A k \in 1..9 : ~CheckRejects(k, last, used_nonces))
           => last.verification.invalidReason = <<"insufficient", "balance">>

\* C16: process_request returns a ProcessingResult, 'allow' or 'deny', for
\* every request context and every payment header, and never raises.
C16_ProcessRequestNeverRaises ==
    last.op = "process_request" =>
        /\ ~last.raised
        /\ last.result.action \in {"allow", "deny"}

\* the exception the last settle_payment call met inside its try block, or
\* "none": decoding the header, building the payload, or the facilitator's
\* settle and the reading of its result
ExceptionInSettle ==
    LET kind == last.ctx.payment_header.kind
    IN  IF kind \in {"absent", "empty", "not_base64", "not_json"} \/ ~config.x402
        THEN "exception: decode"
        ELSE IF kind \in {"not_object", "bad_shape"}
        THEN "exception: PaymentPayload"
        ELSE IF last.settle_outcome.kind = "raises"
        THEN "exception: settle"
        ELSE IF last.settle_outcome.kind = "not_dict"
        THEN "exception: no attribute 'get'"
        ELSE "none"

\* C17: settle_payment never raises; an exception during decoding, matching,
\* the facilitator's settle or the reading of its result yields a
\* SettlementResult with success false that carries the exception detail.
C17_SettlePaymentNeverRaises ==
    last.op = "settle_payment" =>
        /\ ~last.raised
        /\ ExceptionInSettle # "none" =>
              /\ ~last.settlement.success
              /\ last.settlement.error = ExceptionInSettle

\* the facilitator's settle raised and settle_payment returned the failure
C17_Witness ==
    /\ last.op = "settle_payment"
    /\ last.settle_invoked
    /\ last.settle_outcome.kind = "raises"
    /\ ~last.raised
    /\ ~last.settlement.success
    /\ last.settlement.error = "exception: settle"

\* the last verify call met an internal exception: int() of a non-numeric
\* version, int() of a non-numeric validity bound once version, scheme and
\* network had passed, or a failure of the EVM signing library once the
\* checks before the signature had passed
InternalErrorInVerify ==
    \/ ~IsInt(last.payment.x402Version)
    \/ /\ \A k \in 1..3 : ~CheckRejects(k, last, used_nonces)
       /\ ~IsIntOrEmpty(last.payment.validAfter) \/ ~IsIntOrEmpty(last.payment.validBefore)
    \/ /\ config.facilitator = "evm"
       /\ IsIntOrEmpty(last.payment.validAfter) /\ IsIntOrEmpty(last.payment.validBefore)
       /\ \A k \in 1..8 : ~CheckRejects(k, last, used_nonces)
       /\ SignatureToCheck /\ last.env.libs /\ last.env.sig = "encode_raises"

\* C18: verify of the Local facilitators never raises: it returns a dict with
\* an isValid entry for every payment and requirements, and an internal
\* exception yields isValid false with a reason that starts with
\* 'unexpected_verify_error: '.
C18_VerifyNeverRaises ==
    last.op = "verify" =>
        /\ ~last.raised
        /\ "isValid" \in last.verification.keys
        /\ InternalErrorInVerify =>
              /\ ~last.verification.isValid
              /\ StartsWith(last.verification.invalidReason,
                            <<"unexpected", "verify", "error:">>)

\* a payment with a non-numeric validAfter was answered with the unexpected
\* error reason
C18_Witness ==
    /\ last.op = "verify"
    /\ last.payment.validAfter = "x"
    /\ InternalErrorInVerify
    /\ ~last.verification.isValid
    /\ StartsWith(last.verification.invalidReason, <<"unexpected", "verify", "error:">>)

\* C19: with fallback_to_remote disabled HybridFacilitator.verify never calls
\* the remote facilitator's verify, whether the local one returns valid,
\* returns invalid or raises, and returns what the local one returned.
C19_NoFallbackNoRemote ==
    (last.op = "hybrid_verify" /\ ~config.fallback_to_remote) =>
        /\ last.hybrid.remote_calls = 0
        /\ last.hybrid.local.kind = "dict" => last.hybrid.returned = last.hybrid.local

\* C20: with fallback enabled HybridFacilitator.verify calls the local
\* facilitator once; if it returns valid the remote one is not consulted and
\* the local result is returned; if it raises or returns invalid, for any
\* reason, the remote verify is called once and its result is returned.
C20_FallbackToRemote ==
    (last.op = "hybrid_verify" /\ config.fallback_to_remote) =>
        LET localValid == /\ last.hybrid.local.kind = "dict"
                          /\ SaysValid(last.hybrid.local.dict)
        IN  /\ last.hybrid.local_calls = 1
            /\ localValid =>
                  /\ last.hybrid.remote_calls = 0
                  /\ last.hybrid.returned = last.hybrid.local
            /\ ~localValid =>
                  /\ last.hybrid.remote_calls = 1
                  /\ last.hybrid.returned = last.hybrid.remote

\* the local facilitator refused a used nonce and the remote verdict, valid,
\* was returned
C20_Witness ==
    /\ last.op = "hybrid_verify"
    /\ config.fallback_to_remote
    /\ last.hybrid.local.kind = "dict"
    /\ last.hybrid.local.dict.invalidReason = <<"nonce", "already", "used">>
    /\ last.hybrid.remote_calls = 1
    /\ last.hybrid.returned = last.hybrid.remote
    /\ SaysValid(last.hybrid.returned.dict)

\* C21: every call of HybridFacilitator.settle calls the remote facilitator's
\* settle once and the local one's never, returns what the remote one
\* returned, and leaves the local facilitator's set of used nonces as it was.
C21_SettleAlwaysRemote ==
    [][IsCall("hybrid_settle") =>
          /\ last'.hybrid.local_calls = 0
          /\ last'.hybrid.remote_calls = 1
          /\ last'.hybrid.returned = last'.hybrid.remote
          /\ used_nonces' = used_nonces]_vars

\* a settle that the local facilitator could have done itself, after a
\* verify that recorded a nonce
C21_Witness ==
    /\ last.op = "hybrid_settle"
    /\ last.hybrid.local.dict.success
    /\ last.hybrid.remote_calls = 1
    /\ last.hybrid.returned.kind = "dict"
    /\ ~last.hybrid.returned.dict.success
    /\ used_nonces # {}

\* the response came back with a 2xx status
Is2xx == last.response.transport = "ok" /\ last.response.status \in 200..299

\* the body of the response is JSON
BodyIsJson == last.response.body.kind \in {"dict", "not_dict"}

IsRemoteCall == last.op \in {"remote_verify", "remote_settle"}

\* the call returned a value
ReturnedNormally == last.returned.kind \in {"dict", "not_dict"}

\* isValid false with a reason starting 'remote_error: ' (verify), success
\* false with an error starting 'remote_error: ' (settle)
ReturnedRemoteError ==
    /\ last.returned.kind = "dict"
    /\ IF last.op = "remote_verify"
       THEN /\ ~SaysValid(last.returned.dict)
            /\ StartsWith(StatedReason(last.returned.dict), <<"remote", "error:">>)
       ELSE /\ "success" \in last.returned.dict.keys
            /\ ~last.returned.dict.success
            /\ "error" \in last.returned.dict.keys
            /\ \E detail \in {"timeout", "refused", "client error", "server error",
                              "invalid json"} :
                  last.returned.dict.error = "remote_error: " \o detail

\* C22: RemoteFacilitator.verify and settle never raise; a 2xx response whose
\* body is JSON is returned as parsed, unchanged; a transport failure, a
\* non-2xx status or a body that is no JSON gives isValid false with a reason
\* starting 'remote_error: ' (verify) or success false with an error starting
\* 'remote_error: ' (settle).
C22_RemoteNeverRaises ==
    IsRemoteCall =>
        /\ ReturnedNormally
        /\ (Is2xx /\ BodyIsJson) => last.returned = last.response.body
        /\ ~(Is2xx /\ BodyIsJson) => ReturnedRemoteError

\* a 200 response whose body is no JSON became a remote_error verdict
C22_Witness ==
    /\ last.op = "remote_verify"
    /\ Is2xx
    /\ ~BodyIsJson
    /\ ReturnedRemoteError

\* C22 as stated: every 2xx response has its parsed body returned unchanged,
\* and every transport failure or non-2xx status gives the remote_error result
C22_AsStated ==
    IsRemoteCall =>
        /\ ReturnedNormally
        /\ Is2xx => (BodyIsJson /\ last.returned = last.response.body)
        /\ ~Is2xx => ReturnedRemoteError

\* the chain family of a network name: the Solana networks are named sol...
NetworkFamily(network) ==
    IF StartsWith(Lower(network), <<"s", "o", "l">>) THEN "solana" ELSE "evm"

\* C23: for every valid configuration get_facilitator returns a Local
\* facilitator for mode 'local', a Remote one for 'remote' and a Hybrid one
\* for 'hybrid', and the local verification backend it builds is the one of
\* the chain family of config.network.
C23_FactorySelection ==
    last.op = "get_facilitator" =>
        LET c == last.constructed.config
        IN  /\ ~last.made.raised
            /\ c.facilitator_mode = "local" => last.made.type = "LocalFacilitator"
            /\ c.facilitator_mode = "remote" => last.made.type = "RemoteFacilitator"
            /\ c.facilitator_mode = "hybrid" => last.made.type = "HybridFacilitator"
            /\ c.facilitator_mode \in {"local", "hybrid"} =>
                  last.made.backend = NetworkFamily(c.network)

FacilitatorModes == {"local", "remote", "hybrid"}

SettlePolicies == {"block-on-failure", "log-and-continue"}

\* what every X402Config satisfies
WellFormedConfig(c) ==
    /\ c.network # <<>>
    /\ c.price # ""
    /\ c.pay_to_address # <<>>
    /\ c.facilitator_mode \in FacilitatorModes
    /\ c.settle_policy \in SettlePolicies
    /\ c.facilitator_mode \in {"local", "hybrid"} => c.local.repr # "none"
    /\ c.facilitator_mode \in {"remote", "hybrid"} => c.remote.repr # "none"

\* the input lacks something that no default supplies: a required field, a
\* value of an enumeration, or the remote sub-config its mode needs
CannotBeDefaulted(i) ==
    \/ i.given # Required
    \/ i.network = <<>> \/ i.price = "" \/ i.pay_to_address = <<>>
    \/ i.facilitator_mode \notin FacilitatorModes
    \/ i.settle_policy \notin SettlePolicies
    \/ /\ i.facilitator_mode \in {"remote", "hybrid"}
       /\ (i.remote.repr = "none" \/ i.via = "from_env")

\* C24: every X402Config a constructor returns has non-empty network, price
\* and pay_to_address, a facilitator_mode and a settle_policy of their
\* enumerations, a local sub-config when the mode is local or hybrid and a
\* remote one when it is remote or hybrid; an input violating one of these
\* beyond what defaults supply makes construction raise and return no object.
C24_ConfigInvariant ==
    last.op = "construct" =>
        /\ ~last.constructed.raised => WellFormedConfig(last.constructed.config)
        /\ CannotBeDefaulted(last.input) =>
              /\ last.constructed.raised
              /\ last.constructed.config = NoConfig

\* a hybrid configuration given no local sub-config was built with the default
\* one; the remote one was supplied
C24_Witness ==
    /\ last.op = "construct"
    /\ last.input.facilitator_mode = "hybrid"
    /\ last.input.local.repr = "none"
    /\ ~last.constructed.raised
    /\ last.constructed.config.local.repr = "object"
    /\ last.constructed.config.remote.repr # "none"

\* the pattern without its trailing '/*'
PatternPrefix(pattern) == SubSeq(pattern, 1, Len(pattern) - 2)

EndsInSlashStar(pattern) ==
    /\ Len(pattern) >= 2
    /\ pattern[Len(pattern) - 1] = "/"
    /\ pattern[Len(pattern)] = "*"

IsPrefixOf(prefix, path) ==
    /\ Len(prefix) <= Len(path)
    /\ \A i \in 1..Len(prefix) : path[i] = prefix[i]

FailsDecoding(header) == header.kind \in {"not_base64", "not_json"}

\* the last call was a process_request on a protected path with a header that
\* fails decoding
UndecodableRequest ==
    /\ last.op = "process_request"
    /\ CoveredByPattern(last.ctx.path)
    /\ FailsDecoding(last.ctx.payment_header)

DecodedResponse(result) == JsonLoads(Base64Decode(result.encoded_response))

\* the result carries an encoded_response
CarriesResponse(result) == result.encoded_response # <<>>

KeyVariableMissing == {"X402_SIGNER_KEY not set", "X402_SOLANA_SIGNER_KEY not set"}

RpcVariableMissing == {"X402_RPC_URL not set", "X402_SOLANA_RPC_URL not set"}

\* the settle call made the named call to the chain
Did(step) == \E i \in DOMAIN last.steps : last.steps[i] = step

\* C28: Local settle of either chain family, when the signer-key variable or
\* the RPC-endpoint variable is unset or empty, returns success false with an
\* error naming a missing variable, and builds and broadcasts no transaction.
C28_MissingVariableFails ==
    (last.op = "settle" /\ (~last.senv.private_key \/ ~last.senv.rpc_url)) =>
        /\ last.settled.kind = "dict"
        /\ ~last.settled.dict.success
        /\ \/ ~last.senv.private_key /\ last.settled.dict.error \in KeyVariableMissing
           \/ ~last.senv.rpc_url /\ last.settled.dict.error \in RpcVariableMissing
        /\ ~Did("build")
        /\ ~Did("broadcast")

\* the last call was a settle of the EVM facilitator
EvmSettleCall == last.op = "settle" /\ config.facilitator = "evm"

\* step a comes before step b among the calls made
Before(a, b) ==
    \E i, j \in DOMAIN last.steps :
        i < j /\ last.steps[i] = a /\ last.steps[j] = b

\* C29: with simulate_before_send enabled Local EVM settle signs and
\* broadcasts only after the simulation call succeeded; a failed simulation
\* gives success false with an error containing the simulation error, and
\* nothing is signed or broadcast.
C29_SimulationBeforeBroadcast ==
    (EvmSettleCall /\ config.local.simulate_before_send) =>
        /\ (Did("sign") \/ Did("broadcast")) =>
              /\ last.senv.simulation = "ok"
              /\ Before("simulate", "sign")
              /\ Before("simulate", "broadcast")
        /\ (Did("simulate") /\ last.senv.simulation = "raises") =>
              /\ last.settled.kind = "dict"
              /\ ~last.settled.dict.success
              /\ last.settled.dict.error = "Transaction simulation failed: " \o "revert"
              /\ ~Did("sign")
              /\ ~Did("broadcast")

\* a settle whose simulation failed, everything before it having worked
C29_Witness ==
    /\ EvmSettleCall
    /\ config.local.simulate_before_send
    /\ Did("simulate")
    /\ last.senv.simulation = "raises"
    /\ ~last.settled.dict.success
    /\ ~Did("broadcast")

\* a call that settle made raised
SomeStepRaised ==
    \/ Did("build") /\ last.senv.build = "raises"
    \/ Did("simulate") /\ last.senv.simulation = "raises"
    \/ Did("broadcast") /\ last.senv.broadcast = "raises"
    \/ Did("wait") /\ last.senv.receipt = "raises"

\* C30: with wait_for_receipt enabled Local EVM settle returns success true
\* only for a transaction whose receipt was obtained and shows no revert; a
\* reverted receipt gives success false, and an exception at any step, the
\* wait for the receipt included, gives success false with the error detail.
C30_ReceiptDecidesSuccess ==
    (EvmSettleCall /\ config.local.wait_for_receipt) =>
        /\ last.settled.kind = "dict"
        /\ last.settled.dict.success =>
              /\ Did("wait")
              /\ last.senv.receipt = "ok"
              /\ "receipt" \in last.settled.dict.keys
        /\ (Did("wait") /\ last.senv.receipt = "reverted") =>
              ~last.settled.dict.success
        /\ SomeStepRaised =>
              /\ ~last.settled.dict.success
              /\ last.settled.dict.error # ""

-----------------------------------------------------------------------------

\* the lower-case spelling of the names, written out letter by letter
LowerCased(network) ==
    [i \in DOMAIN network |->
       CASE network[i] = "S" -> "s" [] network[i] = "O" -> "o"
         [] network[i] = "L" -> "l" [] network[i] = "A" -> "a"
         [] network[i] = "N" -> "n" [] network[i] = "B" -> "b"
         [] network[i] = "E" -> "e" [] network[i] = "P" -> "p"
         [] OTHER -> network[i]]

\* the recognized names: solana..., and base..., ethereum..., polygon...
NamedSolana(network) ==
    IsPrefixOf(<<"s", "o", "l", "a", "n", "a">>, LowerCased(network))

NamedEvm(network) ==
    \/ IsPrefixOf(<<"b", "a", "s", "e">>, LowerCased(network))
    \/ IsPrefixOf(<<"e", "t", "h", "e", "r", "e", "u", "m">>, LowerCased(network))
    \/ IsPrefixOf(<<"p", "o", "l", "y", "g", "o", "n">>, LowerCased(network))

\* C31: detect_chain_type ignores letter case: every recognized Solana name
\* yields 'solana', every recognized EVM name yields 'evm', no identifier is
\* classified as both, and every unrecognized identifier raises an 'Unknown
\* network' error instead of returning a family.
C31_ChainTypeDetection ==
    last.op = "detect_chain_type" =>
        LET n == last.chain.network
            d == last.chain.detected
        IN  /\ NamedSolana(n) => (~d.raised /\ d.family = "solana" /\ last.chain.is_solana)
            /\ NamedEvm(n) => (~d.raised /\ d.family = "evm" /\ last.chain.is_evm)
            /\ ~(last.chain.is_solana /\ last.chain.is_evm)
            /\ (~NamedSolana(n) /\ ~NamedEvm(n)) =>
                   /\ d.raised
                   /\ d.family = "none"
                   /\ d.error = <<"Unknown", "network">>
                   /\ ~last.chain.is_solana
                   /\ ~last.chain.is_evm

\* the detector was called on 'unknown-chain' and raised
C31_Witness ==
    /\ last.op = "detect_chain_type"
    /\ last.chain.network = <<"u", "n", "k", "n", "o", "w", "n", "-", "c", "h", "a", "i", "n">>
    /\ last.chain.detected.raised

-----------------------------------------------------------------------------

\* the wrapper ran that step
Ran(step) ==
    \E i \in DOMAIN last.wrapper.did.steps : last.wrapper.did.steps[i] = step

\* process_request returned, with that action
Decided(action) == Ran("process_request") /\ last.result.action = action

\* C32: in the require_payment wrapper the view runs only after
\* process_request returned 'allow', settle_payment runs only after the view
\* returned a success response; when process_request returns 'deny' a 402
\* response is returned and neither the view nor settle_payment runs, and
\* the settlement header is attached only when the settlement succeeded.
C32_WrapperOrder ==
    last.op = "require_payment" =>
        /\ Ran("view") => Decided("allow")
        /\ Ran("settle_payment") => (Ran("view") /\ last.wrapper.view = "200")
        /\ Decided("deny") =>
              /\ last.wrapper.did.raised = ""
              /\ last.wrapper.did.status = "402"
              /\ ~Ran("view")
              /\ ~Ran("settle_payment")
        /\ last.wrapper.did.settlement_header =>
              (Ran("settle_payment") /\ last.settlement.success)

-----------------------------------------------------------------------------

\* the header of the last request is a JSON object of the payment shape
HeaderIsPayment == last.ctx.payment_header.kind = "payment"

\* the configured requirement, of scheme 'exact' on the configured network,
\* is the one the payment of the last request names
RequirementNamed ==
    /\ last.ctx.payment_header.payment.scheme = "exact"
    /\ last.ctx.payment_header.payment.network = config.network

\* the last request leaves process_request before the facilitator: its
\* header is missing or empty, does not decode, or names no requirement
ExitsEarly ==
    \/ last.ctx.payment_header.kind \in {"absent", "empty"}
    \/ FailsDecoding(last.ctx.payment_header)
    \/ ~config.x402
    \/ ~HeaderIsPayment
    \/ ~RequirementNamed

-----------------------------------------------------------------------------

\* C34: the processor invokes the facilitator's settle for a payment header
\* only after the facilitator's verify returned valid for that header in an
\* earlier process_request. Hence a settle_payment that is the first call on
\* a processor does not reach settle, and, a valid verify of a Local
\* facilitator having recorded the payment's nonce, a settle_payment that
\* reaches the settle of a Local facilitator finds the nonce recorded.
C34_SettleOnlyVerified ==
    (last.op = "settle_payment" /\ last.settle_invoked) =>
        /\ ncalls > 1
        /\ (config.facilitator # "external" /\ last.payment.nonce # "") =>
               last.payment.nonce \in used_nonces

-----------------------------------------------------------------------------

\* the last verify returned invalid with that reason code
RejectedAs(reason) ==
    /\ ~SaysValid(last.verification)
    /\ StatedReason(last.verification) = reason

\* C35: Local verify of either chain family returns invalid_scheme whenever
\* the scheme of the payment or of the requirements is not exactly 'exact',
\* and invalid_network whenever the two networks are not the identical
\* string; taken for the payments that get as far as the check in question
\* (version 1, and for the network both schemes 'exact').
C35_SchemeAndNetwork ==
    (last.op = "verify" /\ last.payment.x402Version = "1") =>
        /\ (last.payment.scheme # "exact" \/ last.requirements.scheme # "exact") =>
               RejectedAs(<<"invalid", "scheme">>)
        /\ (/\ last.payment.scheme = "exact"
            /\ last.requirements.scheme = "exact"
            /\ last.payment.network # last.requirements.network) =>
               RejectedAs(<<"invalid", "network">>)

-----------------------------------------------------------------------------

\* the step is a request in which the Local facilitator's verify returned valid
ValidVerifyStep ==
    /\ IsCall("process_request")
    /\ last'.verify_invoked
    /\ SaysValid(last'.verification)

\* C36: the used-nonce set of a Local facilitator only grows, and the only
\* change any operation makes to it is a verify that returns valid adding
\* that call's nonce; settle_payment, a failed verify and every other step
\* leave it as it was, so that an accepted nonce is in the set for every
\* later verify.
C36_NonceSetOnlyGrows ==
    [][config.facilitator # "external" =>
          /\ used_nonces \subseteq used_nonces'
          /\ ValidVerifyStep =>
                used_nonces' = used_nonces \cup {last'.payment.nonce}
          /\ ~ValidVerifyStep => used_nonces' = used_nonces]_vars

-----------------------------------------------------------------------------

\* the step is a verify of the payment just verified valid, at the same
\* time and against the same requirements, but of another payer
SameNonceOtherPayer ==
    /\ IsCall("verify")
    /\ last.op = "verify"
    /\ SaysValid(last.verification)
    /\ last'.payment.from # last.payment.from
    /\ last'.payment = [last.payment EXCEPT !.from = last'.payment.from]
    /\ last'.requirements = last.requirements
    /\ last'.at = last.at

\* C37: replay protection is keyed by the nonce alone, not by the payer:
\* after a payment of one payer was verified, the otherwise valid payment of
\* another payer with the same nonce is rejected with nonce_already_used.
C37_NonceNotPerPayer ==
    [][SameNonceOtherPayer =>
          /\ ~SaysValid(last'.verification)
          /\ StatedReason(last'.verification) = <<"nonce", "already", "used">>]_vars

-----------------------------------------------------------------------------

\* the step is a settle_payment, with the replay cache enabled, of a header
\* that decodes and names the requirement and has no cache entry, directly
\* after the settle_payment of a different header string that decodes to
\* the same payment
OtherStringSamePayment ==
    /\ IsCall("settle_payment")
    /\ last.op = "settle_payment"
    /\ config.replay_cache_enabled
    /\ config.x402
    /\ HeaderIsPayment /\ HeaderIsPayment'
    /\ RequirementNamed'
    /\ last'.ctx.payment_header # last.ctx.payment_header
    /\ last'.ctx.payment_header.payment = last.ctx.payment_header.payment
    /\ last'.ctx.payment_header \notin DOMAIN payment_cache

\* C38: settlement idempotency is per header string, not per payment: of two
\* different header strings that decode to the same payment each is looked
\* up and cached on its own, and the facilitator's settle is invoked for
\* each of them.
C38_CachePerHeaderString ==
    [][OtherStringSamePayment =>
          /\ last'.settle_invoked
          /\ \A h \in DOMAIN payment_cache :
                h \in DOMAIN payment_cache' /\ payment_cache'[h] = payment_cache[h]
          /\ DOMAIN payment_cache' \subseteq
                DOMAIN payment_cache \cup {last'.ctx.payment_header}
          /\ last'.settlement.success =>
                /\ last'.ctx.payment_header \in DOMAIN payment_cache'
                /\ payment_cache'[last'.ctx.payment_header] = last'.settlement]_vars

\* two header strings of one payment are both in the cache, and the
\* settle_payment of the second one invoked the facilitator's settle
C38_Witness ==
    /\ last.op = "settle_payment"
    /\ config.replay_cache_enabled
    /\ last.settle_invoked
    /\ \E h \in DOMAIN payment_cache :
          /\ h # last.ctx.payment_header
          /\ h.payment = last.ctx.payment_header.payment
    /\ last.ctx.payment_header \in DOMAIN payment_cache

-----------------------------------------------------------------------------

\* C39: with replay_cache_enabled false the settlement cache is empty in
\* every state, and every settle_payment whose header decodes and names the
\* requirement invokes the facilitator's settle, whatever was settled
\* before.
C39_NoCacheWhenDisabled ==
    [][~config.replay_cache_enabled =>
          /\ DOMAIN payment_cache = {}
          /\ DOMAIN payment_cache' = {}
          /\ (IsCall("settle_payment") /\ config.x402
                 /\ HeaderIsPayment' /\ RequirementNamed') =>
                last'.settle_invoked]_vars

\* with the cache disabled the second call of a run was a settle_payment
\* that reached the facilitator and succeeded, and the cache is empty
C39_Witness ==
    /\ ~config.replay_cache_enabled
    /\ ncalls = 2
    /\ last.op = "settle_payment"
    /\ last.settle_invoked
    /\ last.settlement.success
    /\ DOMAIN payment_cache = {}

-----------------------------------------------------------------------------

\* the last call was X402Config.from_env()
FromEnvCall == last.op = "construct" /\ last.input.via = "from_env"

====
